---- MODULE Spec2Model ----
(***************************************************************************)
(* Gossip subsystem of SentientOS (src/src/gossip): the peer registry and  *)
(* its mutex, the receive loop, the heartbeat/sweep loop and the trace     *)
(* verification engine.                                                    *)
(*                                                                         *)
(* Peer ids are strings in the source; only their equality and their total *)
(* order (String::cmp) matter, so they are modelled as naturals.           *)
(***************************************************************************)
EXTENDS Integers, Sequences, FiniteSets, TLC

\* ---------------------------------------------------------------- bounds
MaxTick == 2
MaxCalls == 2
MaxMsgs == 2
StartTime == 100000

\* ------------------------------------------------------ program constants
PEER_OFFLINE_THRESHOLD == 120
HEARTBEAT_INTERVAL == 30
DISCOVERY_INTERVAL == 300
PROTOCOL_VERSION == 1

\* ------------------------------------------------------------ value sets
Ids == {1, 2, 3}
\* the ids a registry.json left by an earlier run holds
DiskIds == {1, 2}
PeerStatus == {"Unknown", "Online", "Offline", "Synchronizing", "Error"}
Endpoints == {"10.0.0.1:29876", "10.0.0.2:29876"}
Threads == {"main", "listener", "scheduler"}
None == "none"
\* the node id held in the protocol state (never a member of Ids)
LocalNodeId == 0
\* the kinds handle_message has a match arm for
DispatchedKinds == {"Heartbeat", "SyncRequest", "SyncResponse", "StateUpdate"}
Versions == {PROTOCOL_VERSION, PROTOCOL_VERSION + 1}
\* std::sync::Mutex::lock on a mutex the calling thread already holds: the
\* call does not return; it either blocks forever or panics.
RelockOutcomes == {"deadlocked", "panicked"}

VARIABLES
    registry,       \* PEER_REGISTRY.peers: a function from the registered ids to Peer
    disk,           \* .gossip/peers/registry.json: [exists, peers]
    regHolder,      \* the thread that holds the PEER_REGISTRY mutex, or None
    regPoisoned,    \* the mutex was released by a panicking thread
    now,            \* SystemTime::now() in seconds
    pc,             \* each thread's position
    call,           \* each thread's registry call in progress or last returned
    snap,           \* each thread's last list_peers() result
    calls,          \* API calls made by the caller thread
    msg,            \* the datagram the receive loop is handling or has handled,
                    \* the sync function it was passed to, and whether the
                    \* datagram before it was dropped
    msgs,           \* datagrams received so far
    sweep,          \* the sweep's locals: [now, idx]
    sched,          \* the heartbeat loop's locals: [last_heartbeat, last_discovery, wake]
    hashCache,      \* .gossip/hash_cache/<peer_id>.json: peer id -> CachedHashRecord
    verifyRecords,  \* .gossip/verify/verify-<timestamp>.json: timestamp -> VerificationRecord
    vres,           \* what the last verify_trace run returned, with what it compared
    verifyRuns,     \* verify_trace runs that returned a VerificationResult
    vin,            \* what the last verify_trace run found: [failing, cache]
    pulls,          \* .gossip/pull/<peer_id>/<hash prefix>/: [files, records]
    pres,           \* what the last pull_from_peer call found and returned, and when
    enabled,        \* PROTOCOL_STATE.enabled
    protoHolder,    \* the thread that holds the PROTOCOL_STATE mutex, or None
    send,           \* each thread's send call in progress or last returned
    wire,           \* the number of datagrams each thread has handed to the socket
    beat,           \* heartbeat_loop's round: [idx, ping, now, tried, results, res]
    node_id,        \* PROTOCOL_STATE.node_id
    stateFile,      \* .gossip/protocol/state.json: [exists, node_id, enabled]
    codec,          \* a Message on its way: [message, bytes, data, decoded, res]
    spawned,        \* listener threads started that have not tried to bind yet
    heartbeatThread \* PEER_HEARTBEAT_THREAD holds a handle, and the heartbeat_loop
                    \* threads running: [handle, loops]

regVars == <<registry, disk, regHolder, regPoisoned>>
verifyVars == <<hashCache, verifyRecords, vres, verifyRuns, vin, pulls, pres>>
protoVars == <<enabled, protoHolder, send, wire, beat, node_id, stateFile, codec, spawned, heartbeatThread>>
vars == <<registry, disk, regHolder, regPoisoned, now, pc, call, snap, calls,
          msg, msgs, sweep, sched, hashCache, verifyRecords, vres, verifyRuns, vin,
          pulls, pres,
          enabled, protoHolder, send, wire, beat, node_id, stateFile, codec, spawned, heartbeatThread>>

\* ------------------------------------------------------------ the registry
Peer(ep, seen, st) == [endpoint |-> ep, last_seen |-> seen, status |-> st]

PeerInfoOf(reg, id) ==
    [id |-> id, endpoint |-> reg[id].endpoint,
     last_seen |-> reg[id].last_seen, status |-> reg[id].status]

Insert(reg, id, peer) ==
    [x \in DOMAIN reg \cup {id} |-> IF x = id THEN peer ELSE reg[x]]

Remove(reg, id) == [x \in DOMAIN reg \ {id} |-> reg[x]]

EmptyRegistry == [x \in {} |-> Peer("", 0, "Unknown")]

\* peers.sort_by(|a, b| a.id.cmp(&b.id)) over the entries pushed in the
\* HashMap's iteration order
RECURSIVE SortById(_)
SortById(S) ==
    IF S = {} THEN <<>>
    ELSE LET m == CHOOSE x \in S : \A y \in S : x.id <= y.id
         IN  <<m>> \o SortById(S \ {m})

\* one iteration order a HashMap can produce, left unsorted
RECURSIVE UnsortedById(_)
UnsortedById(S) ==
    IF S = {} THEN <<>>
    ELSE LET m == CHOOSE x \in S : \A y \in S : x.id >= y.id
         IN  <<m>> \o UnsortedById(S \ {m})

list_peers_unsorted(reg) == UnsortedById({PeerInfoOf(reg, i) : i \in DOMAIN reg})

list_peers(reg) == SortById({PeerInfoOf(reg, i) : i \in DOMAIN reg})

NoCall == [fn |-> None, id |-> 0, st |-> None, res |-> None, ret |-> None]

SetPc(t, l) == pc' = [pc EXCEPT ![t] = l]

\* PEER_REGISTRY.lock().unwrap() on a poisoned mutex panics in the caller
LockPanics(t) ==
    /\ SetPc(t, "panicked")
    /\ UNCHANGED <<registry, disk, regHolder, regPoisoned, call, snap>>

\* add_peer up to its call of save_peer_registry: the guard is taken and kept
add_peer(t, id, ep, ret) ==
    /\ regHolder = None
    /\ IF regPoisoned THEN LockPanics(t)
       ELSE /\ registry' = Insert(registry, id, Peer(ep, now, "Unknown"))
            /\ regHolder' = t
            /\ call' = [call EXCEPT ![t] =
                   [fn |-> "add_peer", id |-> id, st |-> "Unknown",
                    res |-> "running", ret |-> ret, ep |-> ep]]
            /\ SetPc(t, "save")
            /\ UNCHANGED <<disk, regPoisoned, snap>>

\* remove_peer: an absent id returns Ok at once; otherwise as add_peer
remove_peer(t, id, ret) ==
    /\ regHolder = None
    /\ IF regPoisoned THEN LockPanics(t)
       ELSE IF id \notin DOMAIN registry
       THEN /\ call' = [call EXCEPT ![t] =
                   [fn |-> "remove_peer", id |-> id, st |-> None,
                    res |-> "Ok", ret |-> ret]]
            /\ SetPc(t, ret)
            /\ UNCHANGED <<registry, disk, regHolder, regPoisoned, snap>>
       ELSE /\ registry' = Remove(registry, id)
            /\ regHolder' = t
            /\ call' = [call EXCEPT ![t] =
                   [fn |-> "remove_peer", id |-> id, st |-> None,
                    res |-> "running", ret |-> ret]]
            /\ SetPc(t, "save")
            /\ UNCHANGED <<disk, regPoisoned, snap>>

\* update_peer_status creating the entry of an absent id
update_peer_status_Upsert(t, id, st, ret, onErr) ==
    /\ regHolder = None
    /\ IF regPoisoned THEN LockPanics(t)
       ELSE /\ registry' = Insert(registry, id,
                   Peer(IF id \in DOMAIN registry THEN registry[id].endpoint ELSE "",
                        now, st))
            /\ regHolder' = t
            /\ call' = [call EXCEPT ![t] =
                   [fn |-> "update_peer_status", id |-> id, st |-> st,
                    res |-> "running", ret |-> ret]]
            /\ SetPc(t, "save")
            /\ UNCHANGED <<disk, regPoisoned, snap>>

\* update_peer_status: an absent id returns Err("Unknown peer") at once
update_peer_status(t, id, st, ret, onErr) ==
    /\ regHolder = None
    /\ IF regPoisoned THEN LockPanics(t)
       ELSE IF id \notin DOMAIN registry
       THEN /\ call' = [call EXCEPT ![t] =
                   [fn |-> "update_peer_status", id |-> id, st |-> st,
                    res |-> "UnknownPeer", ret |-> onErr]]
            /\ SetPc(t, onErr)
            /\ UNCHANGED <<registry, disk, regHolder, regPoisoned, snap>>
       ELSE /\ registry' = [registry EXCEPT ![id].status = st,
                                            ![id].last_seen = now]
            /\ regHolder' = t
            /\ call' = [call EXCEPT ![t] =
                   [fn |-> "update_peer_status", id |-> id, st |-> st,
                    res |-> "running", ret |-> ret]]
            /\ SetPc(t, "save")
            /\ UNCHANGED <<disk, regPoisoned, snap>>

\* list_peers as a step of thread t: lock, copy, sort, unlock
ListPeers(t, ret) ==
    /\ regHolder = None
    /\ IF regPoisoned THEN LockPanics(t)
       ELSE /\ snap' = [snap EXCEPT ![t] = list_peers(registry)]
            /\ call' = [call EXCEPT ![t] =
                   [fn |-> "list_peers", id |-> 0, st |-> None,
                    res |-> "Ok", ret |-> ret]]
            /\ SetPc(t, ret)
            /\ UNCHANGED <<registry, disk, regHolder, regPoisoned>>

\* save_peer_registry over a mutex that its holder can lock again
SaveRegistry_Reentrant(t) ==
    /\ pc[t] = "save"
    /\ regHolder \in {t, None}
    /\ ~regPoisoned
    /\ disk' = [exists |-> TRUE, peers |-> registry]
    /\ regHolder' = None
    /\ call' = [call EXCEPT ![t].res = "Ok"]
    /\ SetPc(t, call[t].ret)
    /\ UNCHANGED <<registry, regPoisoned, snap>>
    /\ UNCHANGED <<now, calls, msg, msgs, sweep, sched, verifyVars, protoVars>>

\* save_peer_registry and what follows it in its caller. Called by a mutator,
\* whose guard is still alive, its lock() is the second one of the same thread
\* and never returns. On a free mutex it locks, writes the file, unlocks and
\* the caller returns Ok.
SaveRegistry(t) ==
    /\ pc[t] = "save"
    /\ IF regHolder = t
       THEN \E o \in RelockOutcomes :
            /\ SetPc(t, o)
            /\ regHolder' = IF o = "panicked" THEN None ELSE regHolder
            /\ regPoisoned' = IF o = "panicked" THEN TRUE ELSE regPoisoned
            /\ UNCHANGED <<registry, disk, call, snap>>
       ELSE /\ regHolder = None
            /\ ~regPoisoned
            /\ disk' = [exists |-> TRUE, peers |-> registry]
            /\ call' = [call EXCEPT ![t].res = "Ok"]
            /\ SetPc(t, call[t].ret)
            /\ UNCHANGED <<registry, regHolder, regPoisoned, snap>>
    /\ UNCHANGED <<now, calls, msg, msgs, sweep, sched, verifyVars, protoVars>>

\* ------------------------------------------------------------------ Init
SeenChoices == {StartTime - PEER_OFFLINE_THRESHOLD, StartTime}

\* the registries a registry.json left by an earlier run can hold
DiskRegistries ==
    UNION {[S -> {Peer("10.0.0.1:29876", seen, st) :
                     seen \in SeenChoices, st \in PeerStatus}] : S \in SUBSET DiskIds}

NoMsg == [chan |-> None, kind |-> None, src |-> 0, version |-> 0,
          ep |-> None, known |-> FALSE, res |-> None, hook |-> None, prev |-> FALSE]

\* no file yet, or a file holding one of the registries R
DiskFiles(R) ==
    {[exists |-> FALSE, peers |-> EmptyRegistry]}
        \cup {[exists |-> TRUE, peers |-> r] : r \in R}

EmptyCache == [x \in {} |-> [hash |-> "", timestamp |-> 0, source |-> "Direct"]]

EmptyRecords == [x \in {} |-> [timestamp |-> 0]]

NoResult == [state |-> None]

EmptyDir == [files |-> {}, records |-> {}]

NoPull == [id |-> 0, res |-> None, before |-> EmptyDir, peer_hash |-> None,
           dir_hash |-> None, at |-> 0]

\* save_protocol_state: state.json holds the node id and the flag
save_protocol_state(id, on) == [exists |-> TRUE, node_id |-> id, enabled |-> on]

\* no state.json yet
NoStateFile == [exists |-> FALSE, node_id |-> LocalNodeId, enabled |-> TRUE]

\* send_heartbeats' locals before its loop: tried are the peers it has called
\* send_message for, results what the calls returned (success_count and
\* failure_count count these), res what the round returned
NoBeat == [idx |-> 1, ping |-> FALSE, now |-> 0, tried |-> <<>>, results |-> <<>>,
           res |-> None]

\* peers::init has started the heartbeat loop and keeps its handle
OneLoop == [handle |-> TRUE, loops |-> 1]

\* no Message serialized yet
NoCodec == [message |-> None, bytes |-> <<>>, data |-> <<>>, decoded |-> None,
            res |-> None]

NoSend == [fn |-> None, kind |-> None, ep |-> None, size |-> 0, on |-> FALSE,
           res |-> None, ret |-> None, wire0 |-> 0]

\* the state when gossip::init is about to load the registry
InitBase(D) ==
    /\ registry = EmptyRegistry
    /\ disk \in D
    /\ regHolder = None
    /\ regPoisoned = FALSE
    /\ now = StartTime
    /\ pc = [t \in Threads |->
                IF t = "main" THEN "init" ELSE IF t = "listener" THEN "poll" ELSE "top"]
    /\ call = [t \in Threads |-> NoCall]
    /\ snap = [t \in Threads |-> <<>>]
    /\ calls = 0
    /\ msg = NoMsg
    /\ msgs = 0
    /\ sweep = [now |-> 0, idx |-> 1]
    /\ sched = [last_heartbeat |-> 0, last_discovery |-> 0, wake |-> 0]
    /\ verifyRecords = EmptyRecords
    /\ vres = NoResult
    /\ vin = [failing |-> {}, cache |-> EmptyCache]
    /\ pulls = [i \in Ids |-> EmptyDir]
    /\ pres = NoPull
    /\ verifyRuns = 0
    /\ enabled = TRUE
    /\ protoHolder = None
    /\ send = [t \in Threads |-> NoSend]
    /\ wire = [t \in Threads |-> 0]
    /\ beat = NoBeat
    /\ node_id = LocalNodeId
    /\ stateFile = NoStateFile
    /\ codec = NoCodec
    /\ spawned = 0
    /\ heartbeatThread = OneLoop

Init == InitBase(DiskFiles(DiskRegistries)) /\ hashCache = EmptyCache

\* ------------------------------------------------- the caller's thread
\* gossip::init's last step, after protocol::init and peers::init have
\* started the two loops
LoadPeerRegistry ==
    /\ pc["main"] = "init"
    /\ IF ~disk.exists
       THEN SetPc("main", "idle") /\ UNCHANGED <<regVars, call, snap>>
       ELSE /\ regHolder = None
            /\ IF regPoisoned THEN LockPanics("main")
               ELSE /\ registry' = disk.peers
                    /\ SetPc("main", "idle")
                    /\ UNCHANGED <<disk, regHolder, regPoisoned, call, snap>>
    /\ UNCHANGED <<now, calls, msg, msgs, sweep, sched, verifyVars, protoVars>>

ApiAddPeer ==
    /\ pc["main"] = "idle" /\ calls < MaxCalls
    /\ \E id \in Ids, ep \in Endpoints : add_peer("main", id, ep, "idle")
    /\ calls' = calls + 1
    /\ UNCHANGED <<now, msg, msgs, sweep, sched, verifyVars, protoVars>>

ApiRemovePeer ==
    /\ pc["main"] = "idle" /\ calls < MaxCalls
    /\ \E id \in Ids : remove_peer("main", id, "idle")
    /\ calls' = calls + 1
    /\ UNCHANGED <<now, msg, msgs, sweep, sched, verifyVars, protoVars>>

ApiUpdatePeerStatus ==
    /\ pc["main"] = "idle" /\ calls < MaxCalls
    /\ \E id \in Ids, st \in PeerStatus :
           update_peer_status("main", id, st, "idle", "idle")
    /\ calls' = calls + 1
    /\ UNCHANGED <<now, msg, msgs, sweep, sched, verifyVars, protoVars>>

ApiListPeers ==
    /\ pc["main"] = "idle" /\ calls < MaxCalls
    /\ ListPeers("main", "idle")
    /\ calls' = calls + 1
    /\ UNCHANGED <<now, msg, msgs, sweep, sched, verifyVars, protoVars>>

\* ---------------------------------------------------- the receive loop
\* the sync module's function handle_message passes a message of a kind to
SyncHook(kind) ==
    IF kind = "SyncRequest" THEN "handle_sync_request"
    ELSE IF kind = "SyncResponse" THEN "handle_sync_response"
    ELSE IF kind = "StateUpdate" THEN "handle_state_update"
    ELSE None

\* the datagram was dropped: handle_message or handle_discovery returned an
\* error, which the loop logs, or met an unsupported version
Dropped(m) == m.chan # None /\ (m.res = "Err" \/ m.version # PROTOCOL_VERSION)

\* One round of run_listener_loop in which the unicast socket has a datagram:
\* the enabled check under the PROTOCOL_STATE guard, then handle_message. wf:
\* the bytes deserialize to a Message; pok: the payload deserializes to a
\* SyncRequest.
HandleMessage ==
    /\ pc["listener"] = "poll" /\ msgs < MaxMsgs
    /\ protoHolder = None /\ enabled
    /\ \E kind \in DispatchedKinds, src \in Ids, ver \in Versions, wf, pok \in BOOLEAN :
         LET m(res) == [chan |-> "unicast", kind |-> kind, src |-> src,
                        version |-> ver, ep |-> None,
                        known |-> src \in DOMAIN registry, res |-> res,
                        hook |-> SyncHook(kind), prev |-> Dropped(msg)]
         IN  IF ~wf
             THEN msg' = [NoMsg EXCEPT !.chan = "unicast", !.res = "Err",
                                       !.prev = Dropped(msg)]
                  /\ UNCHANGED <<regVars, pc, call, snap>>
             ELSE IF ver # PROTOCOL_VERSION
             THEN msg' = [NoMsg EXCEPT !.chan = "unicast", !.version = ver, !.res = "Ok",
                                       !.prev = Dropped(msg)]
                  /\ UNCHANGED <<regVars, pc, call, snap>>
             ELSE IF kind = "Heartbeat"
             THEN /\ update_peer_status("listener", src, "Online", "poll", "poll")
                  /\ msg' = m(IF regPoisoned THEN "panicked"
                              ELSE IF src \in DOMAIN registry THEN "handling"
                              ELSE "Err")
             ELSE /\ msg' = m(IF kind = "SyncRequest" /\ ~pok THEN "Err" ELSE "Ok")
                  /\ UNCHANGED <<regVars, pc, call, snap>>
    /\ msgs' = msgs + 1
    /\ UNCHANGED <<now, calls, sweep, sched, verifyVars, protoVars>>

IsOwnDiscovery_Never(node, own) == FALSE

\* handle_discovery's test for the node's own discovery datagram
IsOwnDiscovery(node, own) == node = own

\* One round of run_listener_loop in which the discovery socket has a
\* datagram: the enabled check, then handle_discovery up to the return of its
\* list_peers() lookup
HandleDiscovery ==
    /\ pc["listener"] = "poll" /\ msgs < MaxMsgs
    /\ protoHolder = None /\ enabled
    /\ \E node \in Ids \cup {LocalNodeId}, ep \in Endpoints, wf \in BOOLEAN :
         LET m(res) == [chan |-> "discovery", kind |-> "Discovery", src |-> node,
                        version |-> PROTOCOL_VERSION, ep |-> ep,
                        known |-> node \in DOMAIN registry, res |-> res,
                        hook |-> None, prev |-> Dropped(msg)]
         IN  IF ~wf
             THEN msg' = [NoMsg EXCEPT !.chan = "discovery", !.res = "Err",
                                       !.prev = Dropped(msg)]
                  /\ UNCHANGED <<regVars, pc, call, snap>>
             ELSE IF IsOwnDiscovery(node, node_id)
             THEN msg' = m("Ok") /\ UNCHANGED <<regVars, pc, call, snap>>
             ELSE /\ ListPeers("listener", "disc")
                  /\ msg' = m(IF regPoisoned THEN "panicked" ELSE "handling")
    /\ msgs' = msgs + 1
    /\ UNCHANGED <<now, calls, sweep, sched, verifyVars, protoVars>>

\* handle_discovery after the lookup: add_peer for an id the snapshot lacks,
\* update_peer_status(Online) otherwise
DiscoveryApply ==
    /\ pc["listener"] = "disc"
    /\ LET known == \E i \in 1..Len(snap["listener"]) : snap["listener"][i].id = msg.src
       IN  IF ~known
           THEN add_peer("listener", msg.src, msg.ep, "poll")
                /\ msg' = [msg EXCEPT !.res = IF regPoisoned THEN "panicked" ELSE "handling"]
           ELSE update_peer_status("listener", msg.src, "Online", "poll", "poll")
                /\ msg' = [msg EXCEPT !.res =
                              IF regPoisoned THEN "panicked"
                              ELSE IF msg.src \in DOMAIN registry THEN "handling"
                              ELSE "Err"]
    /\ UNCHANGED <<now, calls, msgs, sweep, sched, verifyVars, protoVars>>

\* ------------------------------------------------- the heartbeat loop
\* the comparison update_peer_statuses makes for one peer of its snapshot
IsSilent(t, seen) == t - seen > PEER_OFFLINE_THRESHOLD

MarksOffline_AnyStatus(peer, t) == IsSilent(t, peer.last_seen)

\* update_peer_statuses' two tests for one peer of its snapshot: an Offline
\* peer is skipped, a silent one is marked
MarksOffline(peer, t) == peer.status # "Offline" /\ IsSilent(t, peer.last_seen)

\* heartbeat_loop from its top to the call of update_peer_statuses: a due
\* heartbeat round takes its list_peers() snapshot, a due discovery ping is
\* sent; neither touches the registry
HeartbeatRound ==
    /\ pc["scheduler"] = "top"
    /\ IF now - sched.last_heartbeat >= HEARTBEAT_INTERVAL
       THEN ListPeers("scheduler", "sweep_list")
       ELSE SetPc("scheduler", "sweep_list") /\ UNCHANGED <<regVars, call, snap>>
    /\ sched' = [sched EXCEPT
           !.last_heartbeat =
               IF now - sched.last_heartbeat >= HEARTBEAT_INTERVAL /\ ~regPoisoned
               THEN now ELSE @,
           !.last_discovery =
               IF now - sched.last_discovery >= DISCOVERY_INTERVAL /\ ~regPoisoned
               THEN now ELSE @]
    /\ UNCHANGED <<now, calls, msg, msgs, sweep, verifyVars, protoVars>>

\* update_peer_statuses: the snapshot and the clock read
SweepList ==
    /\ pc["scheduler"] = "sweep_list"
    /\ ListPeers("scheduler", "sweep")
    /\ sweep' = [now |-> now, idx |-> 1]
    /\ UNCHANGED <<now, calls, msg, msgs, sched, verifyVars, protoVars>>

\* update_peer_statuses: one iteration of its loop, or its return and the
\* loop's sleep(1 s) when the snapshot is exhausted or an update failed
SweepPeer ==
    /\ pc["scheduler"] = "sweep"
    /\ IF sweep.idx > Len(snap["scheduler"])
       THEN SetPc("scheduler", "sleep") /\ UNCHANGED <<regVars, call, snap>>
       ELSE LET peer == snap["scheduler"][sweep.idx]
            IN  IF MarksOffline(peer, sweep.now)
                THEN update_peer_status("scheduler", peer.id, "Offline", "sweep", "sleep")
                ELSE SetPc("scheduler", "sweep") /\ UNCHANGED <<regVars, call, snap>>
    /\ sweep' = [sweep EXCEPT !.idx = IF sweep.idx > Len(snap["scheduler"]) THEN @ ELSE @ + 1]
    /\ sched' = [sched EXCEPT !.wake = IF pc'["scheduler"] = "sleep" THEN now + 1 ELSE @]
    /\ UNCHANGED <<now, calls, msg, msgs, verifyVars, protoVars>>

\* thread::sleep(Duration::from_secs(1)) has elapsed
Wake ==
    /\ pc["scheduler"] = "sleep"
    /\ now >= sched.wake
    /\ SetPc("scheduler", "top")
    /\ UNCHANGED <<regVars, now, call, snap, calls, msg, msgs, sweep, sched, verifyVars, protoVars>>

\* the wall clock advances
Tick ==
    /\ now < StartTime + MaxTick
    /\ now' = now + 1
    /\ UNCHANGED <<regVars, pc, call, snap, calls, msg, msgs, sweep, sched, verifyVars, protoVars>>

\* ------------------------------------------------ trace verification
MAX_CACHE_AGE_HOURS == 24
MaxVerify == 2

\* blake3 digests: Sim(i) is what get_trace_hash simulates for peer i
\* (blake3 of the peer id and a fixed tag, so different for different peers);
\* "H0" is any other digest
SimHash(id) == IF id = 1 THEN "H1" ELSE IF id = 2 THEN "H2" ELSE "H3"
LocalDigests == {"H0", "H1"}

\* load_cached_peer_hashes: the records not older than the maximum age
\* the cache read without the age check
load_cached_peer_hashes_NoExpiry(cache, t) ==
    [i \in DOMAIN cache |-> cache[i].hash]

load_cached_peer_hashes(cache, t) ==
    LET valid == {i \in DOMAIN cache :
                     t - cache[i].timestamp <= MAX_CACHE_AGE_HOURS * 3600}
    IN  [i \in valid |-> cache[i].hash]

\* the peers of the snapshot whose live fetch is attempted and succeeds
LiveFetched(peers, failing) ==
    {peers[k].id : k \in {j \in 1..Len(peers) :
                            peers[j].status = "Online" /\ peers[j].id \notin failing}}

\* the collection without the cached digest for an Online peer whose fetch
\* failed
collect_peer_trace_hashes_NoRetry(peers, cached, failing) ==
    LET ids == {peers[k].id : k \in 1..Len(peers)}
        online == {peers[k].id : k \in {j \in 1..Len(peers) : peers[j].status = "Online"}}
        live == LiveFetched(peers, failing)
        fallback == (ids \ online) \cap DOMAIN cached
        peer_hashes == [i \in live \cup fallback |->
                           IF i \in live THEN SimHash(i) ELSE cached[i]]
    IN  IF DOMAIN peer_hashes = {} /\ online = {} /\ DOMAIN cached # {}
        THEN cached
        ELSE peer_hashes

\* the collection without the fallback to the whole cache
collect_peer_trace_hashes_NoWholeCache(peers, cached, failing) ==
    LET ids == {peers[k].id : k \in 1..Len(peers)}
        live == LiveFetched(peers, failing)
        fallback == (ids \ live) \cap DOMAIN cached
    IN  [i \in live \cup fallback |-> IF i \in live THEN SimHash(i) ELSE cached[i]]

\* the collection with the whole cache used whenever no peer is Online,
\* whatever the loop collected
collect_peer_trace_hashes_CacheFirst(peers, cached, failing) ==
    LET ids == {peers[k].id : k \in 1..Len(peers)}
        online == {peers[k].id : k \in {j \in 1..Len(peers) : peers[j].status = "Online"}}
        live == LiveFetched(peers, failing)
        fallback == (ids \ live) \cap DOMAIN cached
        peer_hashes == [i \in live \cup fallback |->
                           IF i \in live THEN SimHash(i) ELSE cached[i]]
    IN  IF online = {} /\ DOMAIN cached # {}
        THEN cached
        ELSE peer_hashes

\* collect_peer_trace_hashes: the loop over the snapshot, then the fallback
\* to the whole cache
collect_peer_trace_hashes(peers, cached, failing) ==
    LET ids == {peers[k].id : k \in 1..Len(peers)}
        online == {peers[k].id : k \in {j \in 1..Len(peers) : peers[j].status = "Online"}}
        live == LiveFetched(peers, failing)
        fallback == (ids \ live) \cap DOMAIN cached
        peer_hashes == [i \in live \cup fallback |->
                           IF i \in live THEN SimHash(i) ELSE cached[i]]
    IN  IF DOMAIN peer_hashes = {} /\ online = {} /\ DOMAIN cached # {}
        THEN cached
        ELSE peer_hashes

\* the early return of verify_trace when nothing was collected
NoVerificationResult(lh, t) ==
    [state |-> "Ok", verified |-> TRUE, status |-> "NoVerification",
     matching_peers |-> 0, total_peers |-> 0, mismatch_details |-> {},
     local_hash |-> lh, peer_hashes |-> EmptyCache, at |-> t]

\* the comparison with the two match tests of the status chain exchanged
CompareResult_AnyMatch(lh, ph, t) ==
    LET matching == Cardinality({i \in DOMAIN ph : ph[i] = lh})
        total == Cardinality(DOMAIN ph)
    IN  [state |-> "Ok",
         verified |-> matching > 0,
         status |-> IF matching > 0 THEN "FullMatch"
                    ELSE IF matching = total THEN "PartialMatch"
                    ELSE "NoMatch",
         matching_peers |-> matching,
         total_peers |-> total,
         mismatch_details |->
             {[peer_id |-> i, local_hash |-> lh, peer_hash |-> ph[i]] :
                 i \in {j \in DOMAIN ph : ph[j] # lh}},
         local_hash |-> lh, peer_hashes |-> ph, at |-> t]

\* verify_trace's comparison loop and status for a non-empty peer_hashes
CompareResult(lh, ph, t) ==
    LET matching == Cardinality({i \in DOMAIN ph : ph[i] = lh})
        total == Cardinality(DOMAIN ph)
    IN  [state |-> "Ok",
         verified |-> matching > 0,
         status |-> IF matching = total THEN "FullMatch"
                    ELSE IF matching > 0 THEN "PartialMatch"
                    ELSE "NoMatch",
         matching_peers |-> matching,
         total_peers |-> total,
         mismatch_details |->
             {[peer_id |-> i, local_hash |-> lh, peer_hash |-> ph[i]] :
                 i \in {j \in DOMAIN ph : ph[j] # lh}},
         local_hash |-> lh, peer_hashes |-> ph, at |-> t]

\* save_hash_to_cache for every peer fetched live
SaveHashes(cache, live, t) ==
    [i \in DOMAIN cache \cup live |->
        IF i \in live
        THEN [hash |-> SimHash(i), timestamp |-> t, source |-> "Direct"]
        ELSE cache[i]]

\* record_verification_result: fs::write of verify-<timestamp>.json
record_verification_result(records, t, lh, ph, status) ==
    [x \in DOMAIN records \cup {t} |->
        IF x = t
        THEN [timestamp |-> t, local_hash |-> lh, peer_hashes |-> ph, status |-> status]
        ELSE records[x]]

\* verify_trace, called by the caller's thread. readable: whether the
\* runtime directory can be read (compute_local_trace_hash returns Err
\* otherwise); lh: the digest of the local trace files; failing: the peers
\* whose get_trace_hash returns an error. list_peers needs the registry
\* mutex, which no other thread holds while this thread runs alone.
VerifyTrace ==
    /\ pc["main"] = "idle" /\ verifyRuns < MaxVerify
    /\ regHolder = None /\ ~regPoisoned
    /\ \E readable \in BOOLEAN, lh \in LocalDigests, failing \in SUBSET DiskIds :
         LET peers == list_peers(registry)
             cached == load_cached_peer_hashes(hashCache, now)
             ph == collect_peer_trace_hashes(peers, cached, failing)
         IN  IF ~readable
             THEN /\ lh = "H0" /\ failing = {}
                  /\ vres' = [state |-> "Err"]
                  /\ UNCHANGED <<hashCache, verifyRecords, snap, vin>>
             ELSE /\ hashCache' = SaveHashes(hashCache, LiveFetched(peers, failing), now)
                  /\ vin' = [failing |-> failing, cache |-> hashCache]
                  /\ snap' = [snap EXCEPT !["main"] = peers]
                  /\ IF DOMAIN ph = {}
                     THEN /\ vres' = NoVerificationResult(lh, now)
                          /\ UNCHANGED verifyRecords
                     ELSE /\ vres' = CompareResult(lh, ph, now)
                          /\ verifyRecords' =
                                 record_verification_result(
                                     verifyRecords, now, lh, ph,
                                     CompareResult(lh, ph, now).status)
    /\ verifyRuns' = verifyRuns + 1
    /\ UNCHANGED <<regVars, now, pc, call, calls, msg, msgs, sweep, sched, protoVars,
                   pulls, pres>>

\* registries and caches that an earlier run can have left for verification
VerifyRegistries ==
    UNION {[S -> {Peer("10.0.0.1:29876", StartTime, st) : st \in {"Online", "Offline"}}] :
              S \in SUBSET DiskIds}

CachedRecords ==
    {[hash |-> h, timestamp |-> StartTime - MAX_CACHE_AGE_HOURS * 3600, source |-> "Direct"] :
        h \in LocalDigests}
    \cup {[hash |-> "H0", timestamp |-> StartTime - MAX_CACHE_AGE_HOURS * 3600 - 1,
           source |-> "Direct"]}

InitVerify ==
    /\ InitBase(DiskFiles(VerifyRegistries))
    /\ hashCache \in UNION {[S -> CachedRecords] : S \in SUBSET {1, 3}}

NextVerify ==
    \/ LoadPeerRegistry
    \/ VerifyTrace
    \/ Tick

SpecVerify == InitVerify /\ [][NextVerify]_vars

\* ------------------------------------------------------ pulling a trace
\* list_trace_files simulates three trace files
FileCount == 3

\* get_trace_file's simulated content: a fixed pattern of 1024 bytes xor-ed
\* with the bytes of the peer id, the same for every file name
FileContent(id) == "pattern^" \o ToString(id)

\* blake3 over the content of every file of the pull directory: the trace
\* files, and pull-record.json when an earlier pull has left one
DirDigest(id, dir) ==
    "blake3(" \o ToString(Cardinality(dir.files)) \o "*" \o FileContent(id)
        \o (IF dir.records = {} THEN "" ELSE "+pull-record") \o ")"

PullRecordWritten_Always(hash_hex, peer_hash) == TRUE

\* pull_from_peer writes its PullRecord only past the comparison
PullRecordWritten(hash_hex, peer_hash) == hash_hex = peer_hash

\* pull_from_peer called by the caller's thread. pre: whether get_trace_hash
\* and list_trace_files succeed; got: the number of files fetched and written
\* before a get_trace_file call fails (all of them when none fails)
ApiPullFromPeer ==
    /\ pc["main"] = "idle" /\ calls < MaxCalls
    /\ regHolder = None /\ ~regPoisoned
    /\ \E id \in Ids, pre \in BOOLEAN, got \in 0..FileCount :
         LET peers == list_peers(registry)
             found == {k \in 1..Len(peers) : peers[k].id = id}
             peer_hash == SimHash(id)
             written == [files |-> pulls[id].files \cup 0..(got - 1),
                         records |-> pulls[id].records]
             hash_hex == DirDigest(id, written)
             result(r, ph, dh) == [id |-> id, res |-> r, before |-> pulls[id],
                                   peer_hash |-> ph, dir_hash |-> dh, at |-> now]
         IN  /\ snap' = [snap EXCEPT !["main"] = peers]
             /\ IF found = {}
                THEN /\ pre /\ got = 0
                     /\ pres' = result("UnknownPeer", None, None)
                     /\ UNCHANGED pulls
                ELSE IF \E k \in found : peers[k].status # "Online"
                THEN /\ pre /\ got = 0
                     /\ pres' = result("NotOnline", None, None)
                     /\ UNCHANGED pulls
                ELSE IF ~pre
                THEN /\ got = 0
                     /\ pres' = result("RequestFailed", None, None)
                     /\ UNCHANGED pulls
                ELSE IF got < FileCount
                THEN /\ pres' = result("RequestFailed", peer_hash, None)
                     /\ pulls' = [pulls EXCEPT ![id] = written]
                ELSE IF ~PullRecordWritten(hash_hex, peer_hash)
                THEN /\ pres' = result("HashMismatch", peer_hash, hash_hex)
                     /\ pulls' = [pulls EXCEPT ![id] = written]
                ELSE /\ pres' = result("Ok", peer_hash, hash_hex)
                     /\ pulls' = [pulls EXCEPT ![id] =
                            [files |-> written.files,
                             records |-> {[timestamp |-> now, peer_id |-> id,
                                           hash |-> peer_hash,
                                           files_count |-> FileCount,
                                           verified |-> TRUE]}]]
    /\ calls' = calls + 1
    /\ UNCHANGED <<regVars, now, pc, call, msg, msgs, sweep, sched, protoVars,
                   hashCache, verifyRecords, vres, verifyRuns, vin>>

InitPull == InitBase(DiskFiles(VerifyRegistries)) /\ hashCache = EmptyCache

NextPull ==
    \/ LoadPeerRegistry
    \/ ApiPullFromPeer
    \/ Tick

SpecPull == InitPull /\ [][NextPull]_vars

\* ------------------------------------------------------- the protocol
MAX_MESSAGE_SIZE == 65507
NodeIdLen == 16

\* bincode::serialize(&message).len(): version (u8), source_id (u64 length
\* and the bytes), message_type (u32 variant), timestamp (u64), payload (u64
\* length and the bytes), signature (u64 length, empty)
EnvelopeSize(n) == 1 + (8 + NodeIdLen) + 4 + 8 + (8 + n) + (8 + 0)

PayloadSizes == {0, MAX_MESSAGE_SIZE - EnvelopeSize(0), MAX_MESSAGE_SIZE - EnvelopeSize(0) + 1}

\* peer_endpoint.parse::<SocketAddr>() succeeds
ParsesAsSocketAddr(ep) == ep \in Endpoints

SendEndpoints == {"10.0.0.1:29876", "peer-one"}

TooLarge_Ge(len) == len >= MAX_MESSAGE_SIZE

\* the size check of send_message
TooLarge(len) == len > MAX_MESSAGE_SIZE

\* send_message up to the socket: the PROTOCOL_STATE guard is taken and kept
\* when the three checks pass, and dropped on an early error return
send_message(t, ep, kind, n, ret) ==
    /\ protoHolder = None
    /\ LET err == IF ~enabled THEN "Disabled"
                  ELSE IF ~ParsesAsSocketAddr(ep) THEN "InvalidEndpoint"
                  ELSE IF TooLarge(EnvelopeSize(n)) THEN "TooLarge"
                  ELSE None
       IN  /\ send' = [send EXCEPT ![t] =
                  [fn |-> "send_message", kind |-> kind, ep |-> ep,
                   size |-> EnvelopeSize(n), on |-> enabled,
                   res |-> IF err = None THEN "running" ELSE err, ret |-> ret,
                   wire0 |-> wire[t]]]
           /\ protoHolder' = IF err = None THEN t ELSE None
           /\ SetPc(t, IF err = None THEN "sending" ELSE ret)
    /\ UNCHANGED <<enabled, wire, node_id, stateFile, codec, spawned, heartbeatThread>>

\* send_discovery_ping up to the socket
send_discovery_ping(t, ret) ==
    /\ protoHolder = None
    /\ send' = [send EXCEPT ![t] =
           [fn |-> "send_discovery_ping", kind |-> "Discovery", ep |-> None,
            size |-> 0, on |-> enabled,
            res |-> IF enabled THEN "running" ELSE "Disabled", ret |-> ret,
            wire0 |-> wire[t]]]
    /\ protoHolder' = IF enabled THEN t ELSE None
    /\ SetPc(t, IF enabled THEN "sending" ELSE ret)
    /\ UNCHANGED <<enabled, wire, node_id, stateFile, codec, spawned, heartbeatThread>>

\* UdpSocket::bind and socket.send_to, which succeed or fail, then the return
\* of the send and of its caller, which drops the guards they hold
SendTo(t) ==
    /\ pc[t] = "sending"
    /\ \E ok \in BOOLEAN :
         /\ wire' = [wire EXCEPT ![t] = IF ok THEN @ + 1 ELSE @]
         /\ send' = [send EXCEPT ![t].res = IF ok THEN "Ok" ELSE "SocketError"]
         /\ beat' = IF t = "scheduler" /\ send[t].kind = "Heartbeat"
                    THEN [beat EXCEPT !.results =
                             Append(@, IF ok THEN "Ok" ELSE "SocketError")]
                    ELSE beat
    /\ protoHolder' = None
    /\ regHolder' = IF regHolder = t THEN None ELSE regHolder
    /\ SetPc(t, send[t].ret)
    /\ UNCHANGED <<registry, disk, regPoisoned, now, call, snap, calls, msg, msgs,
                   sweep, sched, verifyVars, enabled, node_id, stateFile, codec, spawned, heartbeatThread>>

Sending == \E t \in {"main", "scheduler"} : SendTo(t)

\* protocol::enable: a cleared flag is set and a listener thread started;
\* the state is saved either way
ApiEnable ==
    /\ pc["main"] = "idle" /\ calls < MaxCalls
    /\ protoHolder = None
    /\ enabled' = TRUE
    /\ spawned' = IF enabled THEN spawned ELSE spawned + 1
    /\ stateFile' = save_protocol_state(node_id, TRUE)
    /\ calls' = calls + 1
    /\ UNCHANGED <<regVars, now, pc, call, snap, msg, msgs, sweep, sched, verifyVars,
                   protoHolder, send, wire, beat, node_id, codec, heartbeatThread>>

\* run_listener_loop's start in a thread enable has started: the two
\* UdpSocket::bind calls succeed when no receive loop holds the ports;
\* (the loop has returned or its thread has panicked); otherwise the first
\* fails, the thread logs the error and ends
ListenerBind ==
    /\ spawned > 0
    /\ spawned' = spawned - 1
    /\ pc' = [pc EXCEPT !["listener"] = IF @ \in {"stopped", "panicked"} THEN "poll" ELSE @]
    /\ UNCHANGED <<regVars, now, call, snap, calls, msg, msgs, sweep, sched,
                   verifyVars, enabled, protoHolder, send, wire, beat, node_id,
                   stateFile, codec, heartbeatThread>>

\* protocol::disable
ApiDisable ==
    /\ pc["main"] = "idle" /\ calls < MaxCalls
    /\ protoHolder = None
    /\ enabled' = FALSE
    /\ stateFile' = save_protocol_state(node_id, FALSE)
    /\ calls' = calls + 1
    /\ UNCHANGED <<regVars, now, pc, call, snap, msg, msgs, sweep, sched, verifyVars,
                   protoHolder, send, wire, beat, node_id, codec, spawned, heartbeatThread>>

\* the ids generate_node_id can return: the first 16 hex digits of a hash
\* of the clock and eight random bytes
GeneratedIds == {LocalNodeId, 4}

\* protocol::set_node_id: the id is overwritten and the state saved
ApiSetNodeId ==
    /\ pc["main"] = "idle" /\ calls < MaxCalls
    /\ protoHolder = None
    /\ \E id \in GeneratedIds \cup {1} :
         /\ node_id' = id
         /\ stateFile' = save_protocol_state(id, enabled)
    /\ calls' = calls + 1
    /\ UNCHANGED <<regVars, now, pc, call, snap, msg, msgs, sweep, sched, verifyVars,
                   enabled, protoHolder, send, wire, beat, codec, spawned, heartbeatThread>>

\* protocol::send_message called by the caller's thread
ApiSendMessage ==
    /\ pc["main"] = "idle" /\ calls < MaxCalls
    /\ \E ep \in SendEndpoints, n \in PayloadSizes :
         send_message("main", ep, "StateUpdate", n, "idle")
    /\ calls' = calls + 1
    /\ UNCHANGED <<regVars, now, call, snap, msg, msgs, sweep, sched, verifyVars, beat>>

\* protocol::send_discovery_ping called by the caller's thread
ApiSendDiscoveryPing ==
    /\ pc["main"] = "idle" /\ calls < MaxCalls
    /\ send_discovery_ping("main", "idle")
    /\ calls' = calls + 1
    /\ UNCHANGED <<regVars, now, call, snap, msg, msgs, sweep, sched, verifyVars, beat>>

\* get_trace_hash, list_trace_files and get_trace_file: each sends its
\* request with send_message before it builds its simulated answer
ApiTraceRequest ==
    /\ pc["main"] = "idle" /\ calls < MaxCalls
    /\ send_message("main", "10.0.0.2:29876", "TraceHashRequest", 0, "idle")
    /\ calls' = calls + 1
    /\ UNCHANGED <<regVars, now, call, snap, msg, msgs, sweep, sched, verifyVars, beat>>

\* serde_json::to_vec of sync::synchronize_with_peer's placeholder request:
\* {"components":["core","contracts"],"timestamp":<ten digits>}
SyncRequestLen == 58

SyncCall(id, res, ret) ==
    [fn |-> "synchronize_with_peer", id |-> id, st |-> None, res |-> res, ret |-> ret]

\* the call without the lookup in the registry, sent to a default endpoint
synchronize_with_peer_Unchecked(t, id, ret) ==
    /\ regHolder = None
    /\ IF regPoisoned
       THEN LockPanics(t) /\ UNCHANGED <<protoVars>>
       ELSE /\ send_message(t, "10.0.0.1:29876", "SyncRequest", SyncRequestLen, ret)
            /\ regHolder' = IF pc'[t] = "sending" THEN t ELSE None
            /\ call' = [call EXCEPT ![t] = SyncCall(id, "Sent", ret)]
            /\ UNCHANGED <<registry, disk, regPoisoned, snap, beat>>

\* gossip::synchronize_with_peer: the registry guard is taken and lives until
\* the function returns; an absent id returns Err("Unknown peer"), otherwise
\* sync::synchronize_with_peer sends the SyncRequest to the peer's endpoint
synchronize_with_peer(t, id, ret) ==
    /\ regHolder = None
    /\ IF regPoisoned
       THEN LockPanics(t) /\ UNCHANGED <<protoVars>>
       ELSE IF id \notin DOMAIN registry
       THEN /\ send' = [send EXCEPT ![t] =
                   [fn |-> "synchronize_with_peer", kind |-> "SyncRequest",
                    ep |-> None, size |-> 0, on |-> enabled,
                    res |-> "UnknownPeer", ret |-> ret,
                    wire0 |-> wire[t]]]
            /\ call' = [call EXCEPT ![t] = SyncCall(id, "UnknownPeer", ret)]
            /\ UNCHANGED <<regVars, pc, snap, enabled, protoHolder, wire, beat,
                           node_id, stateFile, codec, spawned, heartbeatThread>>
       ELSE /\ send_message(t, registry[id].endpoint, "SyncRequest", SyncRequestLen, ret)
            /\ regHolder' = IF pc'[t] = "sending" THEN t ELSE None
            /\ call' = [call EXCEPT ![t] = SyncCall(id, "Sent", ret)]
            /\ UNCHANGED <<registry, disk, regPoisoned, snap, beat>>

\* gossip::synchronize_with_peer called by the caller's thread
ApiSynchronizeWithPeer ==
    /\ pc["main"] = "idle" /\ calls < MaxCalls
    /\ \E id \in Ids : synchronize_with_peer("main", id, "idle")
    /\ calls' = calls + 1
    /\ UNCHANGED <<now, msg, msgs, sweep, sched, verifyVars>>

\* heartbeat_loop's top: the clock read and, when a heartbeat round is due,
\* send_heartbeats' list_peers() snapshot
BeatList ==
    /\ pc["scheduler"] = "top"
    /\ IF now - sched.last_heartbeat >= HEARTBEAT_INTERVAL
       THEN ListPeers("scheduler", "beat")
       ELSE SetPc("scheduler", "ping") /\ UNCHANGED <<regVars, call, snap>>
    /\ beat' = [NoBeat EXCEPT
                   !.ping = now - sched.last_discovery >= DISCOVERY_INTERVAL,
                   !.now = now]
    /\ sched' = [sched EXCEPT
           !.last_heartbeat =
               IF now - sched.last_heartbeat >= HEARTBEAT_INTERVAL /\ ~regPoisoned
               THEN now ELSE @]
    /\ UNCHANGED <<now, calls, msg, msgs, sweep, verifyVars, enabled, protoHolder,
                   send, wire, node_id, stateFile, codec, spawned, heartbeatThread>>

SkipsHeartbeat_NotOnline(peer) == peer.status # "Online"

\* send_heartbeats' test for a peer it sends nothing to
SkipsHeartbeat(peer) == peer.status = "Offline"

\* send_heartbeats: one iteration of its loop, or its return
BeatSend ==
    /\ pc["scheduler"] = "beat"
    /\ IF beat.idx > Len(snap["scheduler"])
       THEN SetPc("scheduler", "ping")
            /\ UNCHANGED <<enabled, protoHolder, send, wire, node_id, stateFile, codec, spawned, heartbeatThread>>
       ELSE LET peer == snap["scheduler"][beat.idx]
            IN  IF SkipsHeartbeat(peer)
                THEN UNCHANGED <<pc, enabled, protoHolder, send, wire, node_id, stateFile, codec, spawned, heartbeatThread>>
                ELSE send_message("scheduler", peer.endpoint, "Heartbeat", 0, "beat")
    /\ beat' = [beat EXCEPT
           !.idx = IF beat.idx > Len(snap["scheduler"]) THEN @ ELSE @ + 1,
           !.tried = IF beat.idx <= Len(snap["scheduler"])
                        /\ ~SkipsHeartbeat(snap["scheduler"][beat.idx])
                     THEN Append(@, snap["scheduler"][beat.idx].id) ELSE @,
           !.results = IF beat.idx <= Len(snap["scheduler"])
                          /\ ~SkipsHeartbeat(snap["scheduler"][beat.idx])
                          /\ pc'["scheduler"] # "sending"
                       THEN Append(@, send'["scheduler"].res) ELSE @,
           !.res = IF beat.idx > Len(snap["scheduler"]) THEN "Ok" ELSE @]
    /\ UNCHANGED <<regVars, now, call, snap, calls, msg, msgs, sweep, sched, verifyVars>>

\* heartbeat_loop: the discovery ping when it is due
Ping ==
    /\ pc["scheduler"] = "ping"
    /\ IF beat.ping
       THEN send_discovery_ping("scheduler", "sweep_list")
       ELSE SetPc("scheduler", "sweep_list")
            /\ UNCHANGED <<enabled, protoHolder, send, wire, node_id, stateFile, codec, spawned, heartbeatThread>>
    /\ sched' = [sched EXCEPT !.last_discovery = IF beat.ping THEN beat.now ELSE @]
    /\ UNCHANGED <<regVars, now, call, snap, calls, msg, msgs, sweep, verifyVars, beat>>

\* the registries of two peers of any status
BeatRegistries ==
    UNION {[S -> {Peer("10.0.0.1:29876", StartTime, st) : st \in PeerStatus}] :
              S \in SUBSET DiskIds}

\* the heartbeat loop's first round, the protocol being disabled and enabled
\* meanwhile
InitBeat == InitBase(DiskFiles(BeatRegistries)) /\ hashCache = EmptyCache

NextBeat ==
    \/ LoadPeerRegistry
    \/ ApiEnable
    \/ ApiDisable
    \/ BeatList
    \/ BeatSend
    \/ Ping
    \/ Sending

SpecBeat == InitBeat /\ [][NextBeat]_vars

\* the caller's sends and the sends of the heartbeat loop's first round, the
\* protocol being enabled and disabled meanwhile
InitSend == InitBase(DiskFiles(VerifyRegistries)) /\ hashCache = EmptyCache

NextSend ==
    \/ LoadPeerRegistry
    \/ ApiEnable
    \/ ApiDisable
    \/ ApiSendMessage
    \/ ApiSendDiscoveryPing
    \/ ApiTraceRequest
    \/ ApiSynchronizeWithPeer
    \/ BeatList
    \/ BeatSend
    \/ Ping
    \/ Sending

SpecSend == InitSend /\ [][NextSend]_vars

\* ------------------------------------------------------ the lifecycle
\* run_listener_loop's check at the top of a round finds the flag cleared
\* and the loop is left; the sockets are still bound
ListenerStop ==
    /\ pc["listener"] = "poll"
    /\ protoHolder = None /\ ~enabled
    /\ SetPc("listener", "stopping")
    /\ UNCHANGED <<regVars, now, call, snap, calls, msg, msgs, sweep, sched,
                   verifyVars, protoVars>>

\* run_listener_loop returns: its sockets are dropped and the thread ends
ListenerExit ==
    /\ pc["listener"] = "stopping"
    /\ SetPc("listener", "stopped")
    /\ UNCHANGED <<regVars, now, call, snap, calls, msg, msgs, sweep, sched,
                   verifyVars, protoVars>>

\* gossip::shutdown up to protocol::shutdown: save_peer_registry on a free
\* mutex; verify::shutdown refreshes the hash cache from the Online peers
\* whose get_trace_hash succeeds (none when the protocol is disabled);
\* sync::shutdown does nothing, peers::shutdown takes the heartbeat
\* thread's handle and drops it without joining
ApiShutdown ==
    /\ pc["main"] = "idle"
    /\ regHolder = None /\ protoHolder = None
    /\ IF regPoisoned
       THEN LockPanics("main") /\ UNCHANGED <<hashCache, vin, heartbeatThread>>
       ELSE \E failing \in SUBSET DiskIds :
            /\ (~enabled => failing = DiskIds)
            /\ disk' = [exists |-> TRUE, peers |-> registry]
            /\ snap' = [snap EXCEPT !["main"] = list_peers(registry)]
            /\ hashCache' = SaveHashes(hashCache,
                                 LiveFetched(list_peers(registry), failing), now)
            /\ vin' = [failing |-> failing, cache |-> hashCache]
            /\ heartbeatThread' = [heartbeatThread EXCEPT !.handle = FALSE]
            /\ SetPc("main", "shutdown")
            /\ UNCHANGED <<registry, regHolder, regPoisoned, call>>
    /\ UNCHANGED <<now, calls, msg, msgs, sweep, sched, verifyRecords, vres, verifyRuns,
                   pulls, pres, enabled, protoHolder, send, wire, beat, node_id,
                   stateFile, codec, spawned>>

\* protocol::shutdown: the state is saved, then the flag cleared
ProtocolShutdown ==
    /\ pc["main"] = "shutdown"
    /\ protoHolder = None
    /\ stateFile' = save_protocol_state(node_id, enabled)
    /\ enabled' = FALSE
    /\ SetPc("main", "down")
    /\ UNCHANGED <<regVars, now, call, snap, calls, msg, msgs, sweep, sched,
                   verifyVars, protoHolder, send, wire, beat, node_id, codec, spawned, heartbeatThread>>

\* load_protocol_state: the saved state when state.json exists, otherwise
\* ProtocolState::new() with a freshly generated id g
load_protocol_state(file, g) ==
    IF file.exists THEN [node_id |-> file.node_id, enabled |-> file.enabled]
    ELSE [node_id |-> g, enabled |-> TRUE]

\* The process is killed, or has ended, and is started again: everything in
\* memory is lost, the files stay, and gossip::init runs up to the return
\* of peers::init. protocol::init assigns what load_protocol_state returns
\* and starts the listener if the state is enabled; it does not save.
Restart ==
    /\ \E g \in GeneratedIds :
         /\ node_id' = load_protocol_state(stateFile, g).node_id
         /\ enabled' = load_protocol_state(stateFile, g).enabled
    /\ pc' = [t \in Threads |->
                 IF t = "main" THEN "init"
                 ELSE IF t = "listener" THEN (IF enabled' THEN "poll" ELSE "stopped")
                 ELSE "top"]
    /\ registry' = EmptyRegistry
    /\ regHolder' = None /\ regPoisoned' = FALSE /\ protoHolder' = None
    /\ call' = [t \in Threads |-> NoCall]
    /\ snap' = [t \in Threads |-> <<>>]
    /\ send' = [t \in Threads |-> NoSend]
    /\ msg' = NoMsg
    /\ sweep' = [now |-> 0, idx |-> 1]
    /\ sched' = [last_heartbeat |-> 0, last_discovery |-> 0, wake |-> 0]
    /\ beat' = NoBeat
    /\ vres' = NoResult
    /\ vin' = [failing |-> {}, cache |-> EmptyCache]
    /\ pres' = NoPull
    /\ codec' = NoCodec
    /\ spawned' = 0
    /\ heartbeatThread' = OneLoop
    /\ UNCHANGED <<disk, stateFile, hashCache, verifyRecords, pulls, now, calls, msgs,
                   verifyRuns, wire>>

\* gossip::init called again in the process after gossip::shutdown, up to
\* the return of peers::init: protocol::init assigns the saved state and
\* starts a listener thread if it is enabled; start_heartbeat_thread starts a
\* heartbeat_loop thread unless PEER_HEARTBEAT_THREAD holds a handle
GossipInit ==
    /\ pc["main"] = "down" /\ calls < MaxCalls
    /\ protoHolder = None
    /\ \E g \in GeneratedIds :
         /\ node_id' = load_protocol_state(stateFile, g).node_id
         /\ enabled' = load_protocol_state(stateFile, g).enabled
    /\ spawned' = IF enabled' THEN spawned + 1 ELSE spawned
    /\ heartbeatThread' =
           IF heartbeatThread.handle THEN heartbeatThread
           ELSE [handle |-> TRUE, loops |-> heartbeatThread.loops + 1]
    /\ SetPc("main", "init")
    /\ calls' = calls + 1
    /\ UNCHANGED <<regVars, now, call, snap, msg, msgs, sweep, sched, verifyVars,
                   protoHolder, send, wire, beat, stateFile, codec>>

\* shutdown and a second init in one process
InitReinit == InitBase(DiskFiles(VerifyRegistries)) /\ hashCache = EmptyCache

NextReinit ==
    \/ LoadPeerRegistry
    \/ ApiShutdown
    \/ ProtocolShutdown
    \/ GossipInit
    \/ ListenerBind
    \/ ListenerStop
    \/ ListenerExit
    \/ Tick

SpecReinit == InitReinit /\ [][NextReinit]_vars

\* the protocol API called by the caller's thread, shutdown, and restarts of
\* the process
InitNode == InitBase(DiskFiles(VerifyRegistries)) /\ hashCache = EmptyCache

NextNode ==
    \/ LoadPeerRegistry
    \/ ApiEnable
    \/ ApiDisable
    \/ ListenerBind
    \/ ApiSetNodeId
    \/ ApiSendMessage
    \/ ApiSendDiscoveryPing
    \/ Sending
    \/ ApiShutdown
    \/ ProtocolShutdown
    \/ Restart

SpecNode == InitNode /\ [][NextNode]_vars

InitLifecycle == InitBase(DiskFiles(VerifyRegistries)) /\ hashCache = EmptyCache

NextLifecycle ==
    \/ LoadPeerRegistry
    \/ ApiEnable
    \/ ApiDisable
    \/ ApiShutdown
    \/ ProtocolShutdown
    \/ ListenerBind
    \/ ListenerStop
    \/ ListenerExit
    \/ HeartbeatRound
    \/ SweepList
    \/ SweepPeer
    \/ Wake
    \/ Tick

SpecLifecycle == InitLifecycle /\ [][NextLifecycle]_vars

\* the operating system schedules every thread that can run, and time passes
FairSpecLifecycle ==
    /\ SpecLifecycle
    /\ WF_vars(LoadPeerRegistry)
    /\ WF_vars(ProtocolShutdown)
    /\ WF_vars(ListenerBind)
    /\ WF_vars(ListenerStop)
    /\ WF_vars(ListenerExit)
    /\ WF_vars(HeartbeatRound)
    /\ WF_vars(SweepList)
    /\ WF_vars(SweepPeer)
    /\ WF_vars(Wake)
    /\ WF_vars(Tick)

Save == \E t \in Threads : SaveRegistry(t)

\* the caller's thread alone: gossip::init's load and the registry API
NextRegistry ==
    \/ LoadPeerRegistry
    \/ ApiAddPeer
    \/ ApiRemovePeer
    \/ ApiUpdatePeerStatus
    \/ ApiListPeers
    \/ Save
    \/ Tick

SpecRegistry == Init /\ [][NextRegistry]_vars

\* the receive loop after gossip::init
NextReceive ==
    \/ LoadPeerRegistry
    \/ HandleMessage
    \/ HandleDiscovery
    \/ DiscoveryApply
    \/ Save
    \/ Tick

SpecReceive == Init /\ [][NextReceive]_vars

\* the receive loop after gossip::init, over the registries of two peers
\* that are Online or Offline
InitDatagram == InitBase(DiskFiles(VerifyRegistries)) /\ hashCache = EmptyCache

SpecDatagram == InitDatagram /\ [][NextReceive]_vars

\* the discovery channel of the receive loop, the caller setting the node id
\* meanwhile
InitDiscovery == InitBase(DiskFiles(VerifyRegistries)) /\ hashCache = EmptyCache

NextDiscovery ==
    \/ LoadPeerRegistry
    \/ ApiSetNodeId
    \/ HandleDiscovery
    \/ DiscoveryApply
    \/ Save
    \/ Tick

SpecDiscovery == InitDiscovery /\ [][NextDiscovery]_vars

\* the heartbeat loop after gossip::init
NextSweep ==
    \/ LoadPeerRegistry
    \/ HeartbeatRound
    \/ SweepList
    \/ SweepPeer
    \/ Save
    \/ Wake
    \/ Tick

SpecSweep == Init /\ [][NextSweep]_vars

\* WF: the operating system runs every runnable thread again, and time passes
FairSpecSweep ==
    /\ SpecSweep
    /\ WF_vars(LoadPeerRegistry)
    /\ WF_vars(HeartbeatRound)
    /\ WF_vars(SweepList)
    /\ WF_vars(SweepPeer)
    /\ WF_vars(Save)
    /\ WF_vars(Wake)
    /\ WF_vars(Tick)

\* ---------------------------------------------------------------- claims
\* what a load_peer_registry() after a crash would put in memory
Reload(d) == IF d.exists THEN d.peers ELSE EmptyRegistry

\* the thread's registry call finished by returning to its caller
Returned(t) == call[t].res \in {"Ok", "UnknownPeer"}

\* C4: every add_peer, remove_peer of a registered id and update_peer_status
\* of a registered id returns, and on return the registry mutex is free. A
\* call returns only if it never reaches a state it cannot leave: blocked in
\* lock() on the mutex its own thread holds, or unwinding from a panic.
C4_MutatorsReturn ==
    \A t \in Threads :
        /\ pc[t] \notin RelockOutcomes
        /\ (Returned(t) => regHolder # t)

C6_UpdatePeerStatus ==
    call["main"].fn = "update_peer_status" =>
        IF call["main"].res = "UnknownPeer"
        THEN call["main"].id \notin DOMAIN registry /\ Reload(disk) = registry
        ELSE /\ pc["main"] \notin RelockOutcomes
             /\ call["main"].id \in DOMAIN registry
             /\ registry[call["main"].id].status = call["main"].st

\* C7: list_peers returns exactly one entry per registered peer, whatever its
\* status, in strictly ascending order of id.
C7_ListPeersSorted ==
    call["main"].fn = "list_peers" =>
        LET l == snap["main"]
        IN  /\ \A i \in 1..(Len(l) - 1) : l[i].id < l[i + 1].id
            /\ {l[i].id : i \in 1..Len(l)} = DOMAIN registry
            /\ Len(l) = Cardinality(DOMAIN registry)
            /\ \A i \in 1..Len(l) : l[i] = PeerInfoOf(registry, l[i].id)

\* C7 witness: after an earlier call returned, list_peers returned two peers,
\* an Offline one and one that is not
C7_Witness ==
    /\ call["main"].fn = "list_peers"
    /\ calls = 2
    /\ Len(snap["main"]) = 2
    /\ snap["main"][1].status = "Offline"
    /\ snap["main"][2].status = "Synchronizing"

\* the sweep tick is over: update_peer_statuses returned, or its thread is
\* stopped for good
SweepOver == pc["scheduler"] \in {"sleep"} \cup RelockOutcomes

\* C8: a sweep tick run at time now leaves a non-Offline peer whose silence
\* is exactly PEER_OFFLINE_THRESHOLD as it is, and sets every non-Offline peer
\* whose silence is PEER_OFFLINE_THRESHOLD + 1 or more to Offline.
C8_SweepBoundary ==
    SweepOver =>
        \A i \in 1..Len(snap["scheduler"]) :
            LET p == snap["scheduler"][i]
                silence == sweep.now - p.last_seen
            IN  (p.status # "Offline" /\ p.id \in DOMAIN registry) =>
                    /\ (silence = PEER_OFFLINE_THRESHOLD =>
                            registry[p.id].status = p.status)
                    /\ (silence >= PEER_OFFLINE_THRESHOLD + 1 =>
                            registry[p.id].status = "Offline")

Overdue(id) ==
    /\ id \in DOMAIN registry
    /\ registry[id].status # "Offline"
    /\ now - registry[id].last_seen > PEER_OFFLINE_THRESHOLD

\* C9: every registered peer that is not Offline and has been silent for more
\* than PEER_OFFLINE_THRESHOLD seconds is eventually set to Offline by the
\* heartbeat loop. Stated from the top of a loop iteration, whose sweep reads
\* the clock after the threshold was crossed.
C9_EventuallyOffline ==
    \A id \in DiskIds :
        (Overdue(id) /\ pc["scheduler"] \in {"top", "sweep_list"}) ~> ~Overdue(id)

\* C10: once a supported-version Heartbeat, SyncRequest, SyncResponse,
\* StateUpdate or discovery datagram from a registered peer has been handled,
\* that peer is Online.
C10_OnlineAfterMessage ==
    (/\ msg.res = "Ok"
     /\ msg.version = PROTOCOL_VERSION
     /\ msg.kind \in DispatchedKinds \cup {"Discovery"}
     /\ msg.known
     /\ msg.src \in DOMAIN registry) =>
        registry[msg.src].status = "Online"

\* ---------------------------------------------------------------- C1
\* C1: for every verify_trace run that returns a result, with total the
\* number of collected peer digests and matching the number of those equal
\* to the local digest: the status is NoVerification iff total = 0,
\* FullMatch iff matching = total > 0, PartialMatch iff 0 < matching < total,
\* NoMatch iff matching = 0 < total; total_peers and matching_peers are these
\* counts and mismatch_details has total - matching entries.
C1_StatusClassification ==
    vres.state = "Ok" =>
        LET total == Cardinality(DOMAIN vres.peer_hashes)
            matching == Cardinality({i \in DOMAIN vres.peer_hashes :
                                        vres.peer_hashes[i] = vres.local_hash})
        IN  /\ (vres.status = "NoVerification") <=> (total = 0)
            /\ (vres.status = "FullMatch") <=> (matching = total /\ total > 0)
            /\ (vres.status = "PartialMatch") <=> (0 < matching /\ matching < total)
            /\ (vres.status = "NoMatch") <=> (matching = 0 /\ 0 < total)
            /\ vres.total_peers = total
            /\ vres.matching_peers = matching
            /\ Cardinality(vres.mismatch_details) = total - matching

\* a run that collected two digests of which one equals the local digest
C1_Witness ==
    /\ vres.state = "Ok"
    /\ vres.status = "PartialMatch"
    /\ vres.total_peers = 2
    /\ vres.matching_peers = 1
    /\ Cardinality(vres.mismatch_details) = 1

\* ---------------------------------------------------------------- C2
\* C2: in every result returned by verify_trace, verified is TRUE exactly
\* when matching_peers > 0; a run that collected no digest returns
\* verified = FALSE.
C2_VerifiedIffMatching ==
    vres.state = "Ok" => (vres.verified <=> vres.matching_peers > 0)

\* ---------------------------------------------------------------- C3
\* C3: every verify_trace run that returns a result has written its
\* VerificationRecord before returning, whatever the outcome, the
\* NoVerification outcome included.
C3_RecordPerRun ==
    vres.state = "Ok" =>
        /\ vres.at \in DOMAIN verifyRecords
        /\ verifyRecords[vres.at].status = vres.status
        /\ verifyRecords[vres.at].local_hash = vres.local_hash
        /\ verifyRecords[vres.at].peer_hashes = vres.peer_hashes

\* ---------------------------------------------------------------- C11
\* C11: in every reachable state in which a thread is handing a datagram to
\* the socket, that thread holds neither the registry mutex nor the
\* protocol-state mutex.
C11_NoLockAcrossSend ==
    \A t \in Threads : pc[t] = "sending" => (regHolder # t /\ protoHolder # t)

\* ---------------------------------------------------------------- C20
SendErrors == {"Disabled", "InvalidEndpoint", "TooLarge"}

SendReturned(t) == send[t].fn = "send_message" /\ send[t].res \notin {None, "running"}

\* C20: send_message returns an error and hands no datagram to the socket
\* when the protocol is disabled, the endpoint does not parse or the envelope
\* is larger than 65507 bytes, and an envelope of exactly 65507 bytes passes
\* the checks; a failing call leaves the protocol state unchanged; and no
\* datagram is handed to the socket while the protocol is disabled.
C20_SendMessageFails ==
    /\ [](\A t \in Threads :
            /\ send[t].res \in SendErrors => wire[t] = send[t].wire0
            /\ SendReturned(t) =>
                 /\ (~send[t].on \/ send[t].ep \notin Endpoints
                        \/ send[t].size > 65507) => send[t].res \in SendErrors
                 /\ (send[t].on /\ send[t].ep \in Endpoints /\ send[t].size <= 65507)
                        => send[t].res \notin SendErrors)
    /\ [][/\ \A t \in Threads :
               (send'[t] # send[t] /\ send'[t].res \in SendErrors) => enabled' = enabled
          /\ wire' # wire => (enabled /\ enabled')]_vars

\* the caller's send of an envelope of exactly 65507 bytes reached the socket
\* after the heartbeat thread was refused a send by a disabled protocol
C20_Witness ==
    /\ SendReturned("main")
    /\ send["main"].size = 65507
    /\ send["main"].res = "Ok"
    /\ wire["main"] = send["main"].wire0 + 1
    /\ send["scheduler"].res = "Disabled"
    /\ wire["scheduler"] = send["scheduler"].wire0

\* ---------------------------------------------------------------- C12
WorkersTerminated == pc["listener"] = "stopped" /\ pc["scheduler"] = "stopped"

RunPeers == {snap["main"][k] : k \in 1..Len(snap["main"])}

\* the cache records that were not older than the maximum age at that run
Unexpired == {i \in DOMAIN vin.cache : vres.at - vin.cache[i].timestamp <= 24 * 3600}

\* the peers whose live fetch that run made with success
FetchedLive == {p.id : p \in {q \in RunPeers : q.status = "Online" /\ q.id \notin vin.failing}}

\* C13: in the collection step each registered peer contributes at most one
\* digest: the live digest if it is Online and the fetch succeeds, otherwise
\* its unexpired cached digest if there is one, and nothing if there is none;
\* a digest from the cache counts in matching_peers and total_peers as a live
\* one does.
C13_PerPeerCollection ==
    vres.state = "Ok" =>
        /\ \A p \in RunPeers :
             IF p.id \in FetchedLive
             THEN p.id \in DOMAIN vres.peer_hashes /\ vres.peer_hashes[p.id] = SimHash(p.id)
             ELSE IF p.id \in Unexpired
             THEN /\ p.id \in DOMAIN vres.peer_hashes
                  /\ vres.peer_hashes[p.id] = vin.cache[p.id].hash
             ELSE p.id \notin DOMAIN vres.peer_hashes
        /\ vres.total_peers = Cardinality(DOMAIN vres.peer_hashes)
        /\ vres.matching_peers =
               Cardinality({i \in DOMAIN vres.peer_hashes :
                               vres.peer_hashes[i] = vres.local_hash})

\* an Online peer whose fetch failed was scored by its cached digest, beside
\* a peer fetched live, and the cached digest is the one that matched
C13_Witness ==
    /\ vres.state = "Ok"
    /\ 1 \in vin.failing /\ 1 \in Unexpired
    /\ \E p \in RunPeers : p.id = 1 /\ p.status = "Online"
    /\ 2 \in FetchedLive
    /\ vres.peer_hashes[1] = vres.local_hash
    /\ vres.total_peers = 2 /\ vres.matching_peers = 1

NoPeerOnline == \A p \in RunPeers : p.status # "Online"

UnexpiredCache == [i \in Unexpired |-> vin.cache[i].hash]

\* C14 as claimed: whenever verify_trace runs while no registered peer is
\* Online and the cache holds at least one unexpired record, the digests
\* used for scoring are the entire unexpired cache.
C14_WholeCache ==
    (vres.state = "Ok" /\ NoPeerOnline /\ Unexpired # {}) =>
        vres.peer_hashes = UnexpiredCache

\* C14 as amended: whenever verify_trace runs while no registered peer is
\* Online and the cache holds at least one unexpired record, the digests
\* used for scoring are the unexpired cached digests of the registered peers
\* when a registered peer has one, and the entire unexpired cache otherwise.
C14_WholeCacheWhenNothingCollected ==
    (vres.state = "Ok" /\ NoPeerOnline /\ Unexpired # {}) =>
        LET registered == {p.id : p \in RunPeers} \cap Unexpired
        IN  IF registered # {}
            THEN vres.peer_hashes = [i \in registered |-> vin.cache[i].hash]
            ELSE vres.peer_hashes = UnexpiredCache

\* a run with a registered Offline peer, no cached record for a registered
\* peer, and the whole cache, a record of an unregistered peer, scored
C14_Witness ==
    /\ vres.state = "Ok" /\ NoPeerOnline
    /\ RunPeers # {}
    /\ Unexpired = {3}
    /\ vres.peer_hashes = UnexpiredCache
    /\ vres.total_peers = 1

\* C15: a cache record older than the maximum age never contributes a digest
\* to verify_trace on any fallback path: its peer gets no digest unless it
\* was fetched live, so it adds nothing to total_peers and is no mismatch; a
\* record whose age does not exceed the maximum is eligible.
C15_ExpiredExcluded ==
    vres.state = "Ok" =>
        /\ \A i \in DOMAIN vin.cache \ (Unexpired \cup FetchedLive) :
             /\ i \notin DOMAIN vres.peer_hashes
             /\ \A d \in vres.mismatch_details : d.peer_id # i
        /\ vres.total_peers <= Cardinality(Unexpired \cup FetchedLive)
        /\ \A p \in RunPeers :
             (p.id \in Unexpired \ FetchedLive) => p.id \in DOMAIN vres.peer_hashes

\* a run one second after a record's age reached the maximum: the record of
\* the registered Offline peer 1 is left out, and the run scores nothing
C15_Witness ==
    /\ vres.state = "Ok"
    /\ 1 \in DOMAIN vin.cache
    /\ vres.at - vin.cache[1].timestamp = 24 * 3600 + 1
    /\ \E p \in RunPeers : p.id = 1 /\ p.status = "Offline"
    /\ 1 \notin DOMAIN vres.peer_hashes

\* ---------------------------------------------------------------- C16
\* C16: when pull_from_peer finds that the hash recomputed over the pull
\* directory differs from the peer-reported hash, it returns the hash
\* mismatch error, and after it returns the pull directory of that peer and
\* digest holds no pull record marked verified, whatever pulls were made into
\* the same directory before.
C16_MismatchLeavesNoRecord ==
    (pres.dir_hash # None /\ pres.dir_hash # pres.peer_hash) =>
        /\ pres.res = "HashMismatch"
        /\ \A rec \in pulls[pres.id].records : ~rec.verified

\* a pull that failed the comparison in a directory an earlier pull had
\* already written its files to
C16_Witness ==
    /\ pres.res = "HashMismatch"
    /\ pres.before.files = 0..(FileCount - 1)
    /\ pulls[pres.id].records = {}

\* ---------------------------------------------------------------- C17
\* C17: after pull_from_peer returns the hash mismatch error, none of the
\* trace files it downloaded remains in the pull directory.
C17_MismatchDiscardsFiles ==
    pres.res = "HashMismatch" => pulls[pres.id].files = {}

C19_RemovePeer ==
    /\ [][(call'["main"] # call["main"] /\ call'["main"].fn = "remove_peer") =>
            LET id == call'["main"].id
            IN  IF id \notin DOMAIN registry
                THEN /\ call'["main"].res = "Ok"
                     /\ registry' = registry /\ disk' = disk
                ELSE /\ DOMAIN registry' = DOMAIN registry \ {id}
                     /\ \A j \in DOMAIN registry' : registry'[j] = registry[j]]_vars
    /\ [](call["main"].fn = "remove_peer" => pc["main"] \notin RelockOutcomes)

\* ---------------------------------------------------------------- C21
\* C21: handling a discovery datagram from a node N other than the local
\* node completes, and by then: if N was not registered, N is registered
\* with status Unknown and the endpoint made of the source address and the
\* unicast port; if N was registered, N's status is Online and its endpoint
\* is unchanged; no other peer is changed.
C21_DiscoveryAddsOrUpdates ==
    /\ [][(pc["listener"] = "disc" /\ pc'["listener"] # "disc") =>
            LET n == msg.src
            IN  /\ DOMAIN registry' = DOMAIN registry \cup {n}
                /\ IF n \notin DOMAIN registry
                   THEN /\ registry'[n].status = "Unknown"
                        /\ registry'[n].endpoint = msg.ep
                   ELSE /\ registry'[n].status = "Online"
                        /\ registry'[n].endpoint = registry[n].endpoint
                /\ \A j \in DOMAIN registry \ {n} : registry'[j] = registry[j]]_vars
    /\ []((msg.chan = "discovery" /\ msg.kind = "Discovery" /\ msg.src # node_id)
             => pc["listener"] \notin RelockOutcomes)

\* ---------------------------------------------------------------- C22
\* C22: a discovery datagram whose node_id equals the local node id is
\* discarded: handling it returns without error and leaves the registry,
\* any peer registered under that id included, the persisted registry and
\* the protocol state unchanged, and the receive loop goes on.
C22_OwnDiscoveryDiscarded ==
    [][(msgs' = msgs + 1 /\ msg'.kind = "Discovery" /\ msg'.src = node_id) =>
          /\ msg'.res = "Ok"
          /\ pc'["listener"] = "poll"
          /\ UNCHANGED <<registry, disk, regHolder, regPoisoned>>
          /\ UNCHANGED <<enabled, node_id, stateFile, protoHolder>>]_vars

\* the node's own discovery datagram was discarded while a peer is
\* registered under the node's id
C22_Witness ==
    /\ msg.kind = "Discovery" /\ msg.res = "Ok"
    /\ msg.src = node_id
    /\ msg.src \in DOMAIN registry
    /\ pc["listener"] = "poll"

\* ---------------------------------------------------------------- C23
\* C23 as claimed: a received datagram that fails to deserialize, carries an
\* unrecognized protocol version, or whose handler returns an error changes
\* no peer of the registry and is passed to no function of the sync module,
\* and the receive loop keeps running: a valid Heartbeat from a registered
\* peer received after it is still processed.
C23_BadDatagramDropped ==
    [][/\ ((msg' # msg \/ msgs' # msgs) /\ Dropped(msg')) =>
            /\ UNCHANGED <<registry, disk>>
            /\ msg'.hook = None
            /\ pc'["listener"] = "poll"
       /\ (msgs' # msgs /\ Dropped(msg) /\ msg'.kind = "Heartbeat"
              /\ msg'.version = PROTOCOL_VERSION /\ msg'.known) =>
            /\ registry'[msg'.src].status = "Online"
            /\ registry'[msg'.src].last_seen = now]_vars

\* C23 as amended: such a datagram changes no peer of the registry and is
\* passed to no function of the sync module, except that a SyncRequest whose
\* payload does not deserialize has been passed to handle_sync_request, which
\* is what returns the error; the receive loop keeps running: a valid
\* Heartbeat from a registered peer received after it is still processed.
C23_BadDatagramDroppedByHandler ==
    [][/\ ((msg' # msg \/ msgs' # msgs) /\ Dropped(msg')) =>
            /\ UNCHANGED <<registry, disk>>
            /\ msg'.hook = IF msg'.kind = "SyncRequest"
                           THEN "handle_sync_request" ELSE None
            /\ pc'["listener"] = "poll"
       /\ (msgs' # msgs /\ Dropped(msg) /\ msg'.kind = "Heartbeat"
              /\ msg'.version = PROTOCOL_VERSION /\ msg'.known) =>
            /\ registry'[msg'.src].status = "Online"
            /\ registry'[msg'.src].last_seen = now]_vars

\* after a dropped datagram, a Heartbeat from a registered peer that was not
\* Online is handled: the peer is Online
C23_Witness ==
    /\ msgs = 2 /\ msg.prev
    /\ msg.kind = "Heartbeat" /\ msg.known /\ msg.res = "handling"
    /\ registry[msg.src].status = "Online"
    /\ disk.peers[msg.src].status = "Offline"

\* ---------------------------------------------------------------- C24
\* the ids of the peers of a snapshot that are not Offline, in its order
RECURSIVE NotOfflineIds(_)
NotOfflineIds(l) ==
    IF l = <<>> THEN <<>>
    ELSE (IF Head(l).status = "Offline" THEN <<>> ELSE <<Head(l).id>>)
             \o NotOfflineIds(Tail(l))

\* C24: in one heartbeat round a zero-length Heartbeat send is attempted
\* exactly once for every peer of the round's snapshot whose status is not
\* Offline and for no Offline peer; a failed send to one peer does not
\* prevent the attempts to the remaining peers, and the round itself reports
\* success.
C24_HeartbeatRound ==
    /\ beat.tried = NotOfflineIds(SubSeq(snap["scheduler"], 1, beat.idx - 1))
    /\ (send["scheduler"].fn = "send_message" =>
           /\ send["scheduler"].kind = "Heartbeat"
           /\ send["scheduler"].size = EnvelopeSize(0))
    /\ (pc["scheduler"] \in {"ping", "sweep_list"} /\ beat.res # None) =>
           /\ beat.res = "Ok"
           /\ beat.idx = Len(snap["scheduler"]) + 1
           /\ Len(beat.results) = Len(beat.tried)

\* a round over an Unknown and a Synchronizing peer returned after the send
\* to the first failed and the send to the second succeeded
C24_Witness ==
    /\ beat.res = "Ok"
    /\ Len(snap["scheduler"]) = 2
    /\ snap["scheduler"][1].status = "Unknown"
    /\ snap["scheduler"][2].status = "Synchronizing"
    /\ beat.tried = <<1, 2>>
    /\ beat.results[1] # "Ok" /\ beat.results[2] = "Ok"

\* ---------------------------------------------------------------- C25
\* C25: no step of the heartbeat loop writes the registry entry of a peer
\* that is Offline, calls update_peer_status for it or writes the persisted
\* registry on its account: its status and last_seen stay as they are
\* however long its silence lasts.
C25_OfflineNotReevaluated ==
    [][\A id \in DOMAIN registry :
          registry[id].status = "Offline" =>
              /\ id \in DOMAIN registry'
              /\ registry'[id] = registry[id]
              /\ ~(/\ call'["scheduler"] # call["scheduler"]
                   /\ call'["scheduler"].fn = "update_peer_status"
                   /\ call'["scheduler"].id = id)
              /\ (pc["scheduler"] = "sweep" => disk' = disk)]_vars

\* a sweep went through its whole snapshot, in which an Offline peer had
\* been silent for longer than the threshold, and left that peer as it was
C25_Witness ==
    /\ pc["scheduler"] = "sleep"
    /\ sweep.idx > Len(snap["scheduler"])
    /\ \E i \in 1..Len(snap["scheduler"]) :
         LET p == snap["scheduler"][i]
         IN  /\ p.status = "Offline"
             /\ sweep.now - p.last_seen > PEER_OFFLINE_THRESHOLD
             /\ registry[p.id] = disk.peers[p.id]
             /\ registry[p.id].last_seen = p.last_seen

\* ---------------------------------------------------------------- C26
\* the record save_hash_to_cache writes for a digest fetched at time t
DirectRecord(h, t) == [hash |-> h, timestamp |-> t, source |-> "Direct"]

\* C26: whenever an operation has fetched a peer's digest live with success,
\* in verify_trace's collection, in the cache refresh at shutdown and in
\* pull_from_peer, on completion the hash cache holds for that peer a record
\* with exactly that digest, source Direct and the fetch time, whatever
\* record it held before.
C26_LiveFetchCached ==
    /\ vres.state = "Ok" =>
           \A i \in FetchedLive :
               i \in DOMAIN hashCache /\ hashCache[i] = DirectRecord(SimHash(i), vres.at)
    /\ pc["main"] \in {"shutdown", "down"} =>
           \A i \in FetchedLive :
               /\ i \in DOMAIN hashCache
               /\ hashCache[i].hash = SimHash(i)
               /\ hashCache[i].source = "Direct"
               /\ hashCache[i].timestamp \in StartTime..now
    /\ pres.peer_hash # None =>
           /\ pres.id \in DOMAIN hashCache
           /\ hashCache[pres.id] = DirectRecord(pres.peer_hash, pres.at)

\* ---------------------------------------------------------------- C27
\* the caller's last call was synchronize_with_peer, and its last send is
\* the one of that call
SyncCalled ==
    /\ call["main"].fn = "synchronize_with_peer"
    /\ send["main"].kind = "SyncRequest"

\* C27: synchronize_with_peer(id) hands a SyncRequest datagram to the socket
\* only if id is registered, at most one and addressed to the registered
\* endpoint of id; for an id that is not registered it returns the
\* UnknownPeer error and sends nothing; in both cases the registry, the
\* peer's status included, and the persisted registry are unchanged.
C27_SynchronizeWithPeer ==
    /\ [](SyncCalled =>
            LET id == call["main"].id
                sent == wire["main"] - send["main"].wire0
            IN  /\ sent \in {0, 1}
                /\ IF id \in DOMAIN registry
                   THEN /\ send["main"].res # "UnknownPeer"
                        /\ send["main"].ep = registry[id].endpoint
                   ELSE /\ send["main"].res = "UnknownPeer"
                        /\ sent = 0
                        /\ pc["main"] = "idle")
    /\ [][(SyncCalled' /\ (calls' # calls \/ pc["main"] = "sending")) =>
             (registry' = registry /\ disk' = disk)]_vars

\* the caller's second call, for a registered Online peer, handed its one
\* datagram to the socket and returned, and the peer is still Online
C27_Witness ==
    /\ SyncCalled /\ calls = 2
    /\ call["main"].id \in DOMAIN registry
    /\ registry[call["main"].id].status = "Online"
    /\ send["main"].res = "Ok"
    /\ wire["main"] = 1
    /\ pc["main"] = "idle" /\ regHolder = None

\* ---------------------------------------------------------------- C28
\* C28: the node id held in the protocol state never changes once assigned:
\* no call of enable, disable, set_node_id, send_message,
\* send_discovery_ping or shutdown made after init leaves the node with an
\* id different from the one it had before the call.
C28_NodeIdNeverChanges ==
    [][(calls' # calls \/ (pc'["main"] # pc["main"] /\ pc'["main"] # "init"))
          => node_id' = node_id]_vars

\* ---------------------------------------------------------------- C29
\* C29: the node id generated at first run is persisted by that run's
\* initialization: when the process is started again before any shutdown,
\* enable, disable or set_node_id call has saved the protocol state, its
\* initialization loads the same node id.
C29_NodeIdPersistedByInit ==
    [][(pc'["main"] = "init" /\ ~stateFile.exists) => node_id' = node_id]_vars

\* ---------------------------------------------------------------- C30
\* C30: verification records are append-only: a verify_trace run that
\* records its result leaves every record written before as it is and adds
\* one record, so that n recording runs leave n records, also when two runs
\* complete within the same clock second.
C30_RecordsAppendOnly ==
    [][(verifyRuns' # verifyRuns /\ vres'.state = "Ok"
           /\ vres'.status # "NoVerification") =>
          /\ \A t \in DOMAIN verifyRecords :
                 t \in DOMAIN verifyRecords' /\ verifyRecords'[t] = verifyRecords[t]
          /\ Cardinality(DOMAIN verifyRecords') = Cardinality(DOMAIN verifyRecords) + 1]_vars

\* ------------------------------------------------------- the wire format
\* the variants of MessageType in the order of their declaration: bincode
\* writes a variant as its index
MessageTypes ==
    <<"Heartbeat", "SyncRequest", "SyncResponse", "StateUpdate",
      "TraceHashRequest", "TraceHashResponse", "ListTraceFilesRequest",
      "ListTraceFilesResponse", "GetTraceFileRequest", "GetTraceFileResponse">>

VariantIndex(kind) ==
    (CHOOSE i \in 1..Len(MessageTypes) : MessageTypes[i] = kind) - 1

\* bytes are the naturals below 256; bincode's fixed-width integer of w
\* bytes, least significant byte first
RECURSIVE LittleEndian(_, _)
LittleEndian(n, w) ==
    IF w = 0 THEN <<>> ELSE <<n % 256>> \o LittleEndian(n \div 256, w - 1)

RECURSIVE FromLittleEndian(_)
FromLittleEndian(b) ==
    IF b = <<>> THEN 0 ELSE b[1] + 256 * FromLittleEndian(Tail(b))

\* a String is the sequence of its code points (here below 2048); its bytes
\* are their UTF-8 encoding, of one or two bytes each
RECURSIVE Utf8(_)
Utf8(s) ==
    IF s = <<>> THEN <<>>
    ELSE (IF s[1] < 128 THEN <<s[1]>>
          ELSE <<192 + (s[1] \div 64), 128 + (s[1] % 64)>>) \o Utf8(Tail(s))

\* a read that failed
Fail == [ok |-> FALSE]

\* String::from_utf8 over one- and two-byte sequences
RECURSIVE FromUtf8(_)
FromUtf8(b) ==
    IF b = <<>> THEN [ok |-> TRUE, val |-> <<>>]
    ELSE IF b[1] < 128
    THEN LET r == FromUtf8(Tail(b))
         IN  IF r.ok THEN [ok |-> TRUE, val |-> <<b[1]>> \o r.val] ELSE Fail
    ELSE IF b[1] \in 194..223 /\ Len(b) >= 2 /\ b[2] \in 128..191
    THEN LET r == FromUtf8(Tail(Tail(b)))
         IN  IF r.ok
             THEN [ok |-> TRUE, val |-> <<(b[1] - 192) * 64 + (b[2] - 128)>> \o r.val]
             ELSE Fail
    ELSE Fail

\* the reads of bincode's deserializer: each consumes the front of the input
\* and fails when the input ends early
ReadInt(b, w) ==
    IF Len(b) < w THEN Fail
    ELSE [ok |-> TRUE, val |-> FromLittleEndian(SubSeq(b, 1, w)),
          rest |-> SubSeq(b, w + 1, Len(b))]

\* a Vec<u8>: its length as a u64, then the bytes
ReadBytes(b) ==
    LET n == ReadInt(b, 8)
    IN  IF ~n.ok THEN Fail
        ELSE IF Len(n.rest) < n.val THEN Fail
        ELSE [ok |-> TRUE, val |-> SubSeq(n.rest, 1, n.val),
              rest |-> SubSeq(n.rest, n.val + 1, Len(n.rest))]

\* a String: as a Vec<u8> whose bytes must be UTF-8
ReadString(b) ==
    LET r == ReadBytes(b)
    IN  IF ~r.ok THEN Fail
        ELSE LET str == FromUtf8(r.val)
             IN  IF ~str.ok THEN Fail
                 ELSE [ok |-> TRUE, val |-> str.val, rest |-> r.rest]

\* a reader that knows only the four variants handle_message dispatches
ReadVariant_Dispatched(b) ==
    LET r == ReadInt(b, 4)
    IN  IF ~r.ok THEN Fail
        ELSE IF r.val >= 4 THEN Fail
        ELSE [ok |-> TRUE, val |-> MessageTypes[r.val + 1], rest |-> r.rest]

\* a MessageType: the variant's index as a u32, which must be the index of a
\* declared variant
ReadVariant(b) ==
    LET r == ReadInt(b, 4)
    IN  IF ~r.ok THEN Fail
        ELSE IF r.val >= Len(MessageTypes) THEN Fail
        ELSE [ok |-> TRUE, val |-> MessageTypes[r.val + 1], rest |-> r.rest]

\* bincode::serialize(&message): the fields of Message in the order of their
\* declaration
bincode_serialize(m) ==
    <<m.version>>
        \o LittleEndian(Len(Utf8(m.source_id)), 8) \o Utf8(m.source_id)
        \o LittleEndian(VariantIndex(m.message_type), 4)
        \o LittleEndian(m.timestamp, 8)
        \o LittleEndian(Len(m.payload), 8) \o m.payload
        \o LittleEndian(Len(Utf8(m.signature)), 8) \o Utf8(m.signature)

\* bincode::deserialize::<Message>(message_data): the fields are read in the
\* same order; bytes left over are ignored
bincode_deserialize(b) ==
    LET version == ReadInt(b, 1)
    IN  IF ~version.ok THEN Fail
        ELSE LET source_id == ReadString(version.rest)
        IN  IF ~source_id.ok THEN Fail
        ELSE LET message_type == ReadVariant(source_id.rest)
        IN  IF ~message_type.ok THEN Fail
        ELSE LET timestamp == ReadInt(message_type.rest, 8)
        IN  IF ~timestamp.ok THEN Fail
        ELSE LET payload == ReadBytes(timestamp.rest)
        IN  IF ~payload.ok THEN Fail
        ELSE LET signature == ReadString(payload.rest)
        IN  IF ~signature.ok THEN Fail
        ELSE [ok |-> TRUE,
              message |-> [version |-> version.val, source_id |-> source_id.val,
                           message_type |-> message_type.val,
                           timestamp |-> timestamp.val, payload |-> payload.val,
                           signature |-> signature.val]]

\* the Messages serialized: versions around PROTOCOL_VERSION and the largest
\* u8; the ids "", "a" and "éa"; every MessageType; payloads of zero,
\* one and two bytes; the signatures "" and "s"
Messages ==
    [version : {0, PROTOCOL_VERSION, PROTOCOL_VERSION + 1, 255},
     source_id : {<<>>, <<97>>, <<233, 97>>},
     message_type : {MessageTypes[i] : i \in 1..Len(MessageTypes)},
     timestamp : {0, StartTime + 1600000000},
     payload : {<<>>, <<0>>, <<255, 10>>},
     signature : {<<>>, <<115>>}]

\* a node builds a Message and serializes it, as send_message does
Serialize ==
    /\ codec.res = None
    /\ \E m \in Messages :
         codec' = [NoCodec EXCEPT !.message = m, !.bytes = bincode_serialize(m),
                                  !.res = "sent"]
    /\ UNCHANGED <<regVars, now, pc, call, snap, calls, msg, msgs, sweep, sched,
                   verifyVars, enabled, protoHolder, send, wire, beat, node_id,
                   stateFile, spawned, heartbeatThread>>

\* recv_from returns the datagram: the bytes sent, or, from another sender,
\* a datagram that ends early
Deliver ==
    /\ codec.res = "sent"
    /\ \E n \in {Len(codec.bytes), Len(codec.bytes) - 1, 0} :
         codec' = [codec EXCEPT !.data = SubSeq(codec.bytes, 1, n), !.res = "received"]
    /\ UNCHANGED <<regVars, now, pc, call, snap, calls, msg, msgs, sweep, sched,
                   verifyVars, enabled, protoHolder, send, wire, beat, node_id,
                   stateFile, spawned, heartbeatThread>>

\* handle_message up to its match: the deserialization, whose error is
\* returned, then the version check
Deserialize ==
    /\ codec.res = "received"
    /\ LET d == bincode_deserialize(codec.data)
       IN  codec' = [codec EXCEPT
               !.decoded = d,
               !.res = IF ~d.ok THEN "Err"
                       ELSE IF d.message.version # PROTOCOL_VERSION THEN "Unsupported"
                       ELSE "Dispatched"]
    /\ UNCHANGED <<regVars, now, pc, call, snap, calls, msg, msgs, sweep, sched,
                   verifyVars, enabled, protoHolder, send, wire, beat, node_id,
                   stateFile, spawned, heartbeatThread>>

InitCodec == InitBase(DiskFiles({})) /\ hashCache = EmptyCache

NextCodec ==
    \/ Serialize
    \/ Deliver
    \/ Deserialize

SpecCodec == InitCodec /\ [][NextCodec]_vars

\* ---------------------------------------------------------------- C31
\* C31: for every Message, of any version, source id, kind, timestamp,
\* payload and signature, deserializing its serialization succeeds and
\* yields a Message equal field for field; a message of an unrecognized
\* version deserializes too and is rejected by the version check only.
C31_MessageRoundTrip ==
    (codec.res \in {"Err", "Unsupported", "Dispatched"}
        /\ codec.data = bincode_serialize(codec.message)) =>
       /\ codec.decoded.ok
       /\ codec.decoded.message = codec.message
       /\ codec.res = IF codec.message.version = PROTOCOL_VERSION
                      THEN "Dispatched" ELSE "Unsupported"

\* a message of an unsupported version, a two-byte character in its id, the
\* last MessageType and a payload has been serialized, received and decoded
C31_Witness ==
    /\ codec.res = "Unsupported"
    /\ codec.data = codec.bytes
    /\ codec.message.version = 255
    /\ codec.message.source_id = <<233, 97>>
    /\ codec.message.message_type = "GetTraceFileResponse"
    /\ codec.message.timestamp > 0
    /\ codec.message.payload = <<255, 10>>
    /\ codec.decoded.ok

\* ---------------------------------------------------------------- C32
\* gossip::init from the start of the two loops to its return, the datagrams
\* the receive loop handles and the first round of the heartbeat loop
NextStartup ==
    \/ LoadPeerRegistry
    \/ HandleMessage
    \/ HandleDiscovery
    \/ DiscoveryApply
    \/ HeartbeatRound
    \/ SweepList
    \/ SweepPeer
    \/ Save

\* registry.json holds two Online peers, last seen at the start or more than
\* the threshold before it, or does not exist
StartupRegistries ==
    [DiskIds -> {Peer("10.0.0.1:29876", seen, "Online") :
                    seen \in {StartTime, StartTime - PEER_OFFLINE_THRESHOLD - 1}}]

InitStartup == InitBase(DiskFiles(StartupRegistries)) /\ hashCache = EmptyCache

SpecStartup == InitStartup /\ [][NextStartup]_vars

\* C32: every peer that registry.json holds when gossip::init starts is
\* still in registry.json at every step until init returns, and is in the
\* in-memory registry when init returns, whatever the receive loop and the
\* heartbeat loop do before the load.
C32_PersistedPeersSurviveInit ==
    [][pc["main"] = "init" =>
          \A i \in DOMAIN Reload(disk) :
              /\ i \in DOMAIN Reload(disk')
              /\ pc'["main"] = "idle" => i \in DOMAIN registry']_vars

\* init has returned with the persisted peers loaded, after the receive loop
\* took handle_discovery's snapshot of the still empty registry, or handled a
\* Heartbeat of a persisted peer that was not registered yet
C32_Witness ==
    /\ pc["main"] = "idle"
    /\ DOMAIN registry = DiskIds
    /\ msg.src \in DiskIds
    /\ \/ pc["listener"] = "disc" /\ snap["listener"] = <<>>
       \/ msg.kind = "Heartbeat" /\ msg.version = PROTOCOL_VERSION /\ ~msg.known

\* ---------------------------------------------------------------- C33
\* the step in which update_peer_statuses writes Offline for a peer of its
\* snapshot
SweepDemotes ==
    /\ pc["scheduler"] = "sweep" /\ pc'["scheduler"] = "save"
    /\ call'["scheduler"].st = "Offline"

C34_DiscoveryKeepsRegistered ==
    [][(pc["listener"] = "disc" /\ pc'["listener"] # "disc") =>
          \A i \in DOMAIN registry \cap DOMAIN registry' :
              /\ ~(registry[i].status = "Online" /\ registry'[i].status = "Unknown")
              /\ registry'[i].endpoint = registry[i].endpoint]_vars

\* ---------------------------------------------------------------- C35
\* C35: the sweep's demotion of a peer changes only that peer's status:
\* last_seen, which is the time the peer was last heard of, and the endpoint
\* stay, and so does every other peer.
C35_DemotionKeepsLastSeen ==
    [][SweepDemotes =>
          /\ DOMAIN registry' = DOMAIN registry
          /\ \A i \in DOMAIN registry :
                 registry'[i] = IF i = call'["scheduler"].id
                                THEN [registry[i] EXCEPT !.status = "Offline"]
                                ELSE registry[i]]_vars

\* ---------------------------------------------------------------- C36
\* C36: once the calls of enable and disable have ended with an enable, a
\* receive loop is running or a started thread is about to bind the ports:
\* the protocol is never left enabled with the last receive loop ended and
\* no thread started to replace it.
C36_EnabledHasReceiveLoop ==
    (enabled /\ pc["main"] = "idle" /\ spawned = 0) => pc["listener"] # "stopped"

\* ---------------------------------------------------------------- C37
\* C37: at most one heartbeat_loop thread is running at any time, across any
\* sequence of init and shutdown calls in the process.
C37_OneHeartbeatLoop == heartbeatThread.loops <= 1

\* ---------------------------------------------------------------- C38
\* the ids registered when that run collected its digests
RegisteredIds == {p.id : p \in RunPeers}

\* C38 as claimed: every peer id in the digest map that verify_trace scores
\* and records is the id of a peer registered when the digests were
\* collected, on the per-peer paths and on the whole-cache fallback.
C38_DigestsOfRegisteredPeers ==
    vres.state = "Ok" =>
        /\ DOMAIN vres.peer_hashes \subseteq RegisteredIds
        /\ vres.at \in DOMAIN verifyRecords =>
               DOMAIN verifyRecords[vres.at].peer_hashes \subseteq RegisteredIds

\* C38 as amended: every peer id in the digest map that verify_trace scores
\* and records is the id of a peer registered when the digests were
\* collected, except on the whole-cache fallback, taken when no registered
\* peer is Online and none has an unexpired cache record, where it is the id
\* of an unexpired cache record, registered or not.
C38_DigestsRegisteredOrWholeCache ==
    vres.state = "Ok" =>
        LET scored == DOMAIN vres.peer_hashes \cup
                          (IF vres.at \in DOMAIN verifyRecords
                           THEN DOMAIN verifyRecords[vres.at].peer_hashes ELSE {})
        IN  \A i \in scored :
                \/ i \in RegisteredIds
                \/ /\ NoPeerOnline
                   /\ RegisteredIds \cap Unexpired = {}
                   /\ i \in Unexpired

\* a run over a registry of Offline peers scored and recorded the cached
\* digest of peer 3, which is not registered
C38_Witness ==
    /\ vres.state = "Ok"
    /\ RegisteredIds = DiskIds
    /\ 3 \in DOMAIN vres.peer_hashes
    /\ vres.at \in DOMAIN verifyRecords
    /\ 3 \in DOMAIN verifyRecords[vres.at].peer_hashes

\* ------------------------------------------- the order of the two locks
DropState_Kept(t) == t

\* drop(state) in handle_discovery: the PROTOCOL_STATE guard is released, the
\* mutex has no holder
DropState(t) == None

\* handle_discovery from the top to its lock of PROTOCOL_STATE, a round of
\* run_listener_loop having read a well-formed datagram from the discovery
\* socket
DiscoveryLock ==
    /\ pc["listener"] = "poll" /\ msgs < MaxMsgs
    /\ protoHolder = None /\ enabled
    /\ \E node \in Ids \cup {LocalNodeId}, ep \in Endpoints :
         msg' = [chan |-> "discovery", kind |-> "Discovery", src |-> node,
                 version |-> PROTOCOL_VERSION, ep |-> ep,
                 known |-> node \in DOMAIN registry, res |-> "handling",
                 hook |-> None, prev |-> Dropped(msg)]
    /\ protoHolder' = "listener"
    /\ SetPc("listener", "disc-own")
    /\ msgs' = msgs + 1
    /\ UNCHANGED <<regVars, now, call, snap, calls, sweep, sched, verifyVars,
                   enabled, send, wire, beat, node_id, stateFile, codec, spawned,
                   heartbeatThread>>

\* handle_discovery under the guard: the return for the node's own datagram,
\* which ends the guard's scope, or drop(state)
DiscoveryCheck ==
    /\ pc["listener"] = "disc-own"
    /\ IF IsOwnDiscovery(msg.src, node_id)
       THEN /\ protoHolder' = None
            /\ msg' = [msg EXCEPT !.res = "Ok"]
            /\ SetPc("listener", "poll")
       ELSE /\ protoHolder' = DropState("listener")
            /\ SetPc("listener", "disc-lookup")
            /\ UNCHANGED msg
    /\ UNCHANGED <<regVars, now, call, snap, calls, msgs, sweep, sched, verifyVars,
                   enabled, send, wire, beat, node_id, stateFile, codec, spawned,
                   heartbeatThread>>

\* handle_discovery's list_peers() lookup
DiscoveryLookup ==
    /\ pc["listener"] = "disc-lookup"
    /\ ListPeers("listener", "disc")
    /\ msg' = [msg EXCEPT !.res = IF regPoisoned THEN "panicked" ELSE "handling"]
    /\ UNCHANGED <<now, calls, msgs, sweep, sched, verifyVars, protoVars>>

\* the three threads after gossip::init over a registry.json of one Online
\* peer, each step of handle_discovery that takes or gives up a lock being a
\* step of its own
LockRegistries == {[i \in {1} |-> Peer("10.0.0.1:29876", StartTime, "Online")]}

InitLocks == InitBase(DiskFiles(LockRegistries)) /\ hashCache = EmptyCache

NextLocks ==
    \/ LoadPeerRegistry
    \/ ApiSynchronizeWithPeer
    \/ BeatList
    \/ BeatSend
    \/ Ping
    \/ Sending
    \/ DiscoveryLock
    \/ DiscoveryCheck
    \/ DiscoveryLookup
    \/ DiscoveryApply
    \/ Save

SpecLocks == InitLocks /\ [][NextLocks]_vars

\* the steps in which thread t calls PEER_REGISTRY.lock()
LocksRegistry(t) ==
    \/ t = "listener" /\ (DiscoveryLookup \/ DiscoveryApply)
    \/ t = "main" /\ (LoadPeerRegistry \/ ApiSynchronizeWithPeer)
    \/ t = "scheduler" /\ BeatList
    \/ SaveRegistry(t)

\* C40: no thread requests the registry mutex while it holds the
\* protocol-state mutex: every step in which a thread locks PEER_REGISTRY
\* starts in a state where that thread is not the holder of PROTOCOL_STATE,
\* so the two mutexes are only ever nested registry first, protocol state
\* second, and no circular wait between them can form
C40_RegistryNeverUnderProtocolState ==
    [][\A t \in Threads : LocksRegistry(t) => protoHolder # t]_vars

\* C40: the caller's thread holds the registry mutex and, inside it, the
\* protocol-state mutex (synchronize_with_peer at its send), while the
\* receive loop stands at handle_discovery's registry lookup having dropped
\* the protocol-state guard
C40_Witness ==
    /\ regHolder = "main" /\ protoHolder = "main"
    /\ pc["main"] = "sending"
    /\ pc["listener"] = "disc-lookup"

====
